---- MODULE Spec2Model ----
(***************************************************************************)
(* Bulk-synchronisation scripts of the xCures admin repository:            *)
(*   - request_with_retry (six re-implementations),                        *)
(*   - the pagination walkers (get_all_users, fetch_all_subject_ids_...),  *)
(*   - the per-entity loops of the bulk scripts and the thread pool of     *)
(*     the clinical-concepts audit scripts.                                *)
(* Three state machines share this module: SpecRetry (one call of          *)
(* request_with_retry), SpecPage (one listing) and Spec (one run of a      *)
(* script's main). SpecPool is the run of a thread-pool script with        *)
(* worker threads that keep running, SpecPlan the planning of one user's   *)
(* change, run twice, SpecFailure the handling of one failed attempt (the  *)
(* wait before the next one, the error text), SpecProgress the progress    *)
(* reporter around a per-entity loop.                                      *)
(***************************************************************************)
EXTENDS Integers, Sequences, FiniteSets, TLC

VARIABLES
  \* ---- request_with_retry ----
  rr_variant,    \* which script's request_with_retry is running
  max_retries,   \* its max_retries argument
  attempt,       \* the loop variable of "for attempt in range(1, max_retries + 1)"
  last_resp,     \* Optional[Response]: <<>> is None, <<s>> a response of status s
  last_exc,      \* Optional[exception]: <<>> is None, <<e>> an exception of class e
  rr_trace,      \* the outcome of every session.request sent so far, in order
  rr_result,     \* how the call ended: pending, returned or raised
  \* ---- pagination (get_all_users, fetch_all_subject_ids_with_progress) ----
  pg_variant,    \* which script's paginator is running
  page_size,     \* page_size argument (SUBJECT_PAGE_SIZE for the subjects walker)
  max_pages,     \* max_pages argument: the hard maximum page count
  page_number,   \* the pageNumber the next request will carry
  pg_iter,       \* completed iterations of the page loop
  all_users,     \* items collected so far (all_users / users / all_results / subject_ids)
  total_expected,\* fetch_all_subject_ids_with_progress: Optional[int], <<>> is None
  pg_requests,   \* every list request sent so far: its pageNumber and pageSize
  pg_last,       \* the payload decoded by the latest iteration (NoPayload if none)
  pg_served,     \* what the server has sent so far: its items, and whether the
                 \* pages were full pages followed by a short page
  pg_result,     \* how the listing ended: pending, returned (items) or raised
  pg_errors,     \* the errors the list requests have raised so far, in order
  \* ---- one run of a script's main ----
  script,        \* which script is running
  args,          \* its parsed command line
  n_users,       \* number of entities handed to the per-entity loop
  idx,           \* entities the loop has finished with
  pc,            \* start, loop, collect, flush, done, or how the run stopped:
                 \* exit_early (a precondition failed), crashed, aborted, no_projects
  counts,        \* the outcome counters (updated, skipped, excluded, failed, ...)
  outcomes,      \* the outcome recorded for each finished entity, in order
  writes,        \* number of PUT / POST calls handed to the transport
  last,          \* the entity finished last: its list item, responses, requests
  exit_code,     \* Optional[int] process exit code, <<>> while running
  fut,           \* thread pool: the state of each submitted future
  rows,          \* thread pool: the result rows written to the CSV, in order
  write_lock,    \* thread pool: who holds write_lock ("free" or "main")
  persisted,     \* number of result rows that have reached the output file
  net,           \* TRUE once the run has sent an HTTP request
  \* ---- one entity's mutation plan ----
  pl_variant,    \* which script's planning code is running
  pl_detail,     \* the user detail record the plan starts from
  pl_targets,    \* the change asked for: coming / going values, target ids
  pl_plan,       \* what the latest planning pass decided
  pl_round,      \* 0 fetched, 1 planned, 2 result merged into the detail, 3 planned again
  \* ---- one failed attempt: the wait before the next one, the error raised ----
  fl_variant,    \* which script's transport is running
  fl_attempt,    \* the loop variable "attempt" of the failed attempt, counted from 1
  backoff_seconds, \* the backoff_seconds argument, in seconds
  fl_resp,       \* the response received: status, Retry-After header, body
  fl_slept,      \* Optional[seconds]: the argument of time.sleep, <<>> before it
  fl_error,      \* Optional: the part of the raised message taken from the body
  \* ---- the progress reporter around a per-entity loop ----
  pr_variant,    \* which reporter wraps the loop
  pr_items,      \* the iterable handed to the reporter
  pr_total,      \* its total argument: Optional[int], <<>> is None
  pr_done,       \* items the reporter's own loop has taken from the iterable
  pr_yielded,    \* the items handed to the loop body so far, in order
  pr_printed,    \* the progress lines printed so far
  pr_finished    \* TRUE once the reporter is exhausted

rrVars == <<rr_variant, max_retries, attempt, last_resp, last_exc, rr_trace, rr_result>>

pgVars == <<pg_variant, page_size, max_pages, page_number, pg_iter, all_users,
            total_expected, pg_requests, pg_last, pg_served, pg_result, pg_errors>>

poolVars == <<fut, rows, write_lock>>

runVars == <<script, args, n_users, idx, pc, counts, outcomes, writes, last, exit_code, poolVars,
            persisted, net>>

planVars == <<pl_variant, pl_detail, pl_targets, pl_plan, pl_round>>

flVars == <<fl_variant, fl_attempt, backoff_seconds, fl_resp, fl_slept, fl_error>>

prVars == <<pr_variant, pr_items, pr_total, pr_done, pr_yielded, pr_printed, pr_finished>>

vars == <<rrVars, pgVars, runVars, planVars, flVars, prVars>>

-----------------------------------------------------------------------------
(* Bounds of the model *)

\* largest max_retries argument explored (the scripts default to 5, v2 to 1)
MaxRetriesArg == 3

\* most items the stub server puts on one page
MaxPageItems == 2

\* largest totalCount the stub server reports
MaxTotal == 2

\* most entities one run processes
MaxUsers == 2

\* most subjects one run hands to the thread pool
MaxSubjects == 3

\* longest permissions / projectIds array of a fetched detail record
MaxColl == 3

\* longest list of values a run is asked to add or to remove
MaxTargets == 2

\* ThreadPoolExecutor(max_workers=MAX_WORKERS), scaled down from 10 so that
\* MaxSubjects subjects can fill the pool
MAX_WORKERS == 2

\* most items the stub server lets one listing collect
MaxListed == 3

\* largest max_pages argument explored (the scripts default to 10_000)
MaxPagesArg == 2

\* page loops without a max_pages argument are followed up to this page number
PageCap == 3

-----------------------------------------------------------------------------
(* request_with_retry *)

\* the scripts that define a request_with_retry
RetryScripts ==
  { "update_user_email_domains", "bulk_create_users_from_csv",
    "backup_user_permissions", "update_users_new_projects_v2",
    "duplicate_project", "update_user_permissions" }

\* the status tuple every request_with_retry retries on
RetryableStatuses == {429, 500, 502, 503, 504}

\* statuses the stub server may answer with: success, redirect-class,
\* permanent client and server errors, and every retryable status
ServerStatuses == {200, 304, 404, 501} \cup RetryableStatuses

\* exception classes session.request may raise; all derive from
\* requests.RequestException, only the first two are network-level
\* (requests.Timeout, requests.ConnectionError)
NetworkErrors == {"Timeout", "ConnectionError"}
RequestExceptions == NetworkErrors \cup {"TooManyRedirects"}

Resp(s) == [kind |-> "status", status |-> <<s>>, exc |-> <<>>]
Exc(e) == [kind |-> "exc", status |-> <<>>, exc |-> <<e>>]

\* what one session.request can produce
AttemptOutcomes ==
  {Resp(s) : s \in ServerStatuses} \cup {Exc(e) : e \in RequestExceptions}

\* the classes named by the script's "except (...) as e" clause
CaughtExceptions(v) ==
  IF v \in {"backup_user_permissions", "update_users_new_projects_v2", "duplicate_project"}
  THEN RequestExceptions
  ELSE NetworkErrors

\* "if 200 <= resp.status_code < 300"
IsSuccess(s) == 200 <= s /\ s < 300

StatusDispositionMut(v, s) ==
  IF v = "update_user_permissions"
  THEN IF s \in RetryableStatuses THEN "retry" ELSE "return"
  ELSE IF IsSuccess(s) THEN "return"
       ELSE IF s \in RetryableStatuses \/ s >= 500 THEN "retry"
       ELSE "raise"

\* what the loop body does with a received response: return it, sleep and
\* retry, or raise RuntimeError("HTTP <status> ...").  update_user_permissions
\* has no 2xx test and no raise: every non-retryable response is returned.
StatusDisposition(v, s) ==
  IF v = "update_user_permissions"
  THEN IF s \in RetryableStatuses THEN "retry" ELSE "return"
  ELSE IF IsSuccess(s) THEN "return"
       ELSE IF s \in RetryableStatuses THEN "retry"
       ELSE "raise"

LoopContinuesMut(a, m) == a < m

\* "for attempt in range(1, max_retries + 1)": the body runs for attempt a
LoopContinues(a, m) == a <= m

Pending == [kind |-> "pending", why |-> "", status |-> <<>>, exc |-> <<>>]
Returned(s) == [kind |-> "returned", why |-> "response", status |-> <<s>>, exc |-> <<>>]
Raised(why, st, ex) == [kind |-> "raised", why |-> why, status |-> st, exc |-> ex]

ExhaustedErrorMut(lr, le) ==
  IF le # <<>> THEN Raised("exhausted", <<>>, le)
  ELSE IF lr # <<>> THEN Raised("exhausted", lr, <<>>)
  ELSE Raised("exhausted", <<>>, <<>>)

\* the statements after the loop: "if last_resp is not None: raise ...
\* last_status=...", otherwise raise with last_exc
ExhaustedError(lr, le) ==
  IF lr # <<>> THEN Raised("exhausted", lr, <<>>)
  ELSE IF le # <<>> THEN Raised("exhausted", <<>>, le)
  ELSE Raised("exhausted", <<>>, <<>>)

\* no progress reporter is running
IdleProgress ==
  /\ pr_variant = "none"
  /\ pr_items = <<>>
  /\ pr_total = <<>>
  /\ pr_done = 0
  /\ pr_yielded = <<>>
  /\ pr_printed = <<>>
  /\ pr_finished = FALSE

\* no failed attempt is being handled
IdleFailure ==
  /\ fl_variant = "none"
  /\ fl_attempt = 0
  /\ backoff_seconds = 0
  /\ fl_resp = <<>>
  /\ fl_slept = <<>>
  /\ fl_error = <<>>

\* no plan is being computed
IdlePlan ==
  /\ pl_variant = "none"
  /\ pl_detail = <<>>
  /\ pl_targets = <<>>
  /\ pl_plan = <<>>
  /\ pl_round = 0

\* no script is running
IdleRun ==
  /\ script = "none"
  /\ args = <<>>
  /\ n_users = 0
  /\ idx = 0
  /\ pc = "idle"
  /\ counts = <<>>
  /\ outcomes = <<>>
  /\ writes = 0
  /\ last = <<>>
  /\ exit_code = <<>>
  /\ fut = <<>>
  /\ rows = <<>>
  /\ write_lock = "free"
  /\ persisted = 0
  /\ net = FALSE

\* no listing is running
IdlePage ==
  /\ pg_variant = "none"
  /\ page_size = 0
  /\ max_pages = 0
  /\ page_number = 0
  /\ pg_iter = 0
  /\ all_users = <<>>
  /\ total_expected = <<>>
  /\ pg_requests = <<>>
  /\ pg_last = [shape |-> "", key |-> "", items |-> <<>>, total |-> <<>>]
  /\ pg_served = [items |-> <<>>, phase |-> "full", total |-> <<>>]
  /\ pg_result = [kind |-> "idle", items |-> <<>>]
  /\ pg_errors = <<>>

InitRetry ==
  /\ IdlePage
  /\ IdleRun
  /\ IdlePlan
  /\ IdleFailure
  /\ IdleProgress
  /\ rr_variant \in RetryScripts
  /\ max_retries \in 0..MaxRetriesArg
  /\ attempt = 1
  /\ last_resp = <<>>
  /\ last_exc = <<>>
  /\ rr_trace = <<>>
  /\ rr_result = Pending

\* one iteration of the loop body whose session.request returned a response
AttemptResponse ==
  /\ rr_result.kind = "pending"
  /\ LoopContinues(attempt, max_retries)
  /\ \E s \in ServerStatuses :
       /\ rr_trace' = Append(rr_trace, Resp(s))
       /\ last_resp' = <<s>>
       /\ last_exc' = last_exc
       /\ CASE StatusDisposition(rr_variant, s) = "return" ->
                 /\ rr_result' = Returned(s)
                 /\ attempt' = attempt
            [] StatusDisposition(rr_variant, s) = "retry" ->
                 /\ rr_result' = rr_result
                 /\ attempt' = attempt + 1
            [] OTHER ->
                 /\ rr_result' = Raised("permanent", <<s>>, <<>>)
                 /\ attempt' = attempt
  /\ UNCHANGED <<rr_variant, max_retries>>
  /\ UNCHANGED pgVars
  /\ UNCHANGED <<runVars, planVars, flVars, prVars>>

\* one iteration of the loop body whose session.request raised
AttemptException ==
  /\ rr_result.kind = "pending"
  /\ LoopContinues(attempt, max_retries)
  /\ \E e \in RequestExceptions :
       /\ rr_trace' = Append(rr_trace, Exc(e))
       /\ last_resp' = last_resp
       /\ IF e \in CaughtExceptions(rr_variant)
          THEN /\ last_exc' = <<e>>
               /\ attempt' = attempt + 1
               /\ rr_result' = rr_result
          ELSE /\ last_exc' = last_exc
               /\ attempt' = attempt
               /\ rr_result' = Raised("uncaught", <<>>, <<e>>)
  /\ UNCHANGED <<rr_variant, max_retries>>
  /\ UNCHANGED pgVars
  /\ UNCHANGED <<runVars, planVars, flVars, prVars>>

\* the loop is over without a return: the raise statements after it
Exhausted ==
  /\ rr_result.kind = "pending"
  /\ ~LoopContinues(attempt, max_retries)
  /\ rr_result' = ExhaustedError(last_resp, last_exc)
  /\ UNCHANGED <<rr_variant, max_retries, attempt, last_resp, last_exc, rr_trace>>
  /\ UNCHANGED pgVars
  /\ UNCHANGED <<runVars, planVars, flVars, prVars>>

NextRetry == AttemptResponse \/ AttemptException \/ Exhausted

SpecRetry == InitRetry /\ [][NextRetry]_vars

-----------------------------------------------------------------------------
(* Properties of request_with_retry (checked under SpecRetry) *)

IsStatus(o) == o.kind = "status"
StatusOf(o) == o.status[1]
ExcOf(o) == o.exc[1]
LastOutcome == rr_trace[Len(rr_trace)]

\* indices of the attempts that received a response
ResponseIndices == {i \in 1..Len(rr_trace) : IsStatus(rr_trace[i])}
LastResponseIndex == CHOOSE i \in ResponseIndices : \A j \in ResponseIndices : j <= i

\* every attempt so far, up to index n, was answered 503
All503(n) == \A i \in 1..n : rr_trace[i] = Resp(503)

\* a non-2xx status outside the retryable set
IsPermanentStatus(s) == ~IsSuccess(s) /\ s \notin RetryableStatuses

\* C5: a request is sent again only after a retryable status or a
\* network-level error (requests.Timeout / requests.ConnectionError), and one
\* call never makes more than max_retries attempts.
C5_ResendOnlyAfterTransient ==
  /\ Len(rr_trace) <= max_retries
  /\ \A i \in 1..(Len(rr_trace) - 1) :
       \/ IsStatus(rr_trace[i]) /\ StatusOf(rr_trace[i]) \in RetryableStatuses
       \/ ~IsStatus(rr_trace[i]) /\ ExcOf(rr_trace[i]) \in NetworkErrors

\* C6 as stated: after a permanent status no further attempt is made and the
\* call ends at once with an error raised to the caller.
C6_PermanentRaisesAtOnce ==
  \A i \in 1..Len(rr_trace) :
    (IsStatus(rr_trace[i]) /\ IsPermanentStatus(StatusOf(rr_trace[i])))
      => /\ i = Len(rr_trace)
         /\ rr_result.kind = "raised"

\* C6 amended: after a permanent status no further attempt is made; every
\* request_with_retry raises RuntimeError("HTTP <status> ...") at once, except
\* update_user_permissions', which returns that response to its caller.
C6_PermanentNeverRetried ==
  \A i \in 1..Len(rr_trace) :
    (IsStatus(rr_trace[i]) /\ IsPermanentStatus(StatusOf(rr_trace[i])))
      => /\ i = Len(rr_trace)
         /\ IF rr_variant = "update_user_permissions"
            THEN rr_result = Returned(StatusOf(rr_trace[i]))
            ELSE rr_result = Raised("permanent", rr_trace[i].status, <<>>)

\* a permanent 404 arrives after a retried attempt and ends the call
C6_Witness ==
  /\ rr_variant = "update_users_new_projects_v2"
  /\ Len(rr_trace) = 2
  /\ rr_trace[1] = Resp(503)
  /\ rr_trace[2] = Resp(404)
  /\ rr_result = Raised("permanent", <<404>>, <<>>)

\* C7: 503 on the first max_retries - 1 attempts and 200 on the last returns
\* the 200 response; 503 on every attempt fails with the retry-exhaustion
\* error after exactly max_retries attempts, no fewer and no more.
C7_RetryTermination ==
  /\ Len(rr_trace) <= max_retries
  /\ (All503(Len(rr_trace)) /\ Len(rr_trace) < max_retries) => rr_result = Pending
  /\ (All503(Len(rr_trace)) /\ rr_result # Pending)
       => /\ Len(rr_trace) = max_retries
          /\ rr_result.kind = "raised"
          /\ rr_result.why = "exhausted"
  /\ ( /\ max_retries >= 1
       /\ Len(rr_trace) = max_retries
       /\ All503(max_retries - 1)
       /\ LastOutcome = Resp(200) )
       => rr_result = Returned(200)

\* the last permitted attempt succeeds after max_retries - 1 answers of 503
C7_Witness ==
  /\ max_retries >= 3
  /\ Len(rr_trace) = max_retries
  /\ All503(max_retries - 1)
  /\ LastOutcome = Resp(200)
  /\ rr_result = Returned(200)

\* C8 as stated: the exhaustion error carries the outcome of the last
\* attempt: its status if it received a response, else its exception.
C8_ErrorCarriesLastAttempt ==
  (rr_result.why = "exhausted" /\ Len(rr_trace) > 0)
    => IF IsStatus(LastOutcome)
       THEN rr_result.status = LastOutcome.status /\ rr_result.exc = <<>>
       ELSE rr_result.exc = LastOutcome.exc /\ rr_result.status = <<>>

\* C8 amended: the exhaustion error carries the status of the last attempt
\* that received a response, if any attempt received one; only when no
\* attempt received a response does it carry the last attempt's exception.
C8_ErrorCarriesLastResponse ==
  (rr_result.why = "exhausted" /\ Len(rr_trace) > 0)
    => IF ResponseIndices # {}
       THEN /\ rr_result.status = rr_trace[LastResponseIndex].status
            /\ rr_result.exc = <<>>
       ELSE /\ rr_result.exc = LastOutcome.exc
            /\ rr_result.status = <<>>

\* exhaustion after a response followed by a network error on the last attempt
C8_Witness ==
  /\ rr_result = Raised("exhausted", <<503>>, <<>>)
  /\ Len(rr_trace) = 2
  /\ rr_trace[1] = Resp(503)
  /\ rr_trace[2] = Exc("Timeout")

-----------------------------------------------------------------------------
(* Pagination: get_all_users (four scripts) and                             *)
(* fetch_all_subject_ids_with_progress                                      *)

\* the scripts that walk a paged list endpoint
PageScripts ==
  { "update_user_email_domains", "backup_user_permissions",
    "update_user_permissions", "update_users_new_projects_v2",
    "clinical_concepts_status_docus_count_ALL_subjects" }

\* the get_all_users that take a max_pages argument ("for _ in range(max_pages)");
\* the other three walkers loop with "while True"
CappedScripts == {"update_user_email_domains", "backup_user_permissions"}

\* ids of list items that are JSON objects carrying that id
ItemIds == {"a", "b", "c"}
\* a list item that is not a JSON object
NonDict == "nd"

SeqsUpTo(S, n) == UNION {[1..k -> S] : k \in 0..n}
PageItems == SeqsUpTo(ItemIds \cup {NonDict}, MaxPageItems)

\* Optional[int] totalCount of a page object: <<>> is absent / not an int
Totals == {<<>>} \cup {<<n>> : n \in 0..MaxTotal}

\* a decoded list response: a bare array, an object whose array sits under
\* "results" or "items" (or under neither: key "none"), or any other JSON value
Payloads ==
  [shape : {"list"}, key : {""}, items : PageItems, total : {<<>>}]
    \cup [shape : {"dict"}, key : {"results", "items"}, items : PageItems, total : Totals]
    \cup [shape : {"dict"}, key : {"none"}, items : {<<>>}, total : Totals]
    \cup [shape : {"other"}, key : {""}, items : {<<>>}, total : {<<>>}]

NoPayload == [shape |-> "", key |-> "", items |-> <<>>, total |-> <<>>]

\* what one list request gives its walker: a decoded payload; a raised error
\* (permanent status, non-JSON body, network exhaustion); or the error
\* "request_with_retry: exhausted retries; last_status=500 ..."
TransportOutcomes ==
  {[t |-> "ok", payload |-> q] : q \in Payloads}
    \cup {[t |-> "fail", payload |-> NoPayload], [t |-> "exhausted500", payload |-> NoPayload]}

\* the outcomes of the next list request of a walker that holds all so far
OutcomesFor(all) ==
  {o \in TransportOutcomes : Len(all) + Len(o.payload.items) <= MaxListed}

\* page sizes explored per walker; 51 is the size that arms the fallback of
\* update_user_permissions, small sizes let a stub page fill a whole page
PageSizesOf(v) ==
  CASE v = "update_user_permissions" -> {50, 51}
    [] v = "update_users_new_projects_v2" -> {1, 2, 50}
    [] v = "clinical_concepts_status_docus_count_ALL_subjects" -> {1, 2, 50}
    [] OTHER -> {2, 50}

\* "[r for r in results if isinstance(r, dict)]"
FilterDicts(s) == SelectSeq(s, LAMBDA x : x # NonDict)

RECURSIVE Dedup(_, _)
\* "De-dup while preserving order": s without the elements of seen and
\* without repeats
Dedup(s, seen) ==
  IF s = <<>> THEN <<>>
  ELSE IF Head(s) \in seen THEN Dedup(Tail(s), seen)
       ELSE <<Head(s)>> \o Dedup(Tail(s), seen \cup {Head(s)})

\* the result of one loop iteration: stop is "next" (page_number += 1),
\* "break" (leave the loop, return what was collected), "return" (return ret
\* at once) or "raise"
Step(stop, all, ret) == [stop |-> stop, all |-> all, ret |-> ret]

\* get_all_users without the "not isinstance(data, dict)" test: any other
\* value is read as a page without results
page_email_domainsMut(all, q, pn, ps) ==
  IF q.shape = "list" THEN Step("return", all, FilterDicts(q.items))
  ELSE LET results == IF q.shape = "dict" /\ q.key = "results" THEN q.items ELSE <<>>
           all2 == all \o FilterDicts(results)
       IN IF q.total # <<>> /\ Len(all2) >= q.total[1] THEN Step("break", all2, all2)
          ELSE IF results = <<>> THEN Step("break", all2, all2)
          ELSE Step("next", all2, <<>>)

\* update_user_email_domains.get_all_users, body of the loop after parse_json
page_email_domains(all, q, pn, ps) ==
  IF q.shape = "list" THEN Step("return", all, FilterDicts(q.items))
  ELSE IF q.shape # "dict" THEN Step("raise", all, <<>>)
  ELSE LET results == IF q.key = "results" THEN q.items ELSE <<>>
           all2 == all \o FilterDicts(results)
       IN IF q.total # <<>> /\ Len(all2) >= q.total[1] THEN Step("break", all2, all2)
          ELSE IF results = <<>> THEN Step("break", all2, all2)
          ELSE Step("next", all2, <<>>)

\* backup_user_permissions.get_all_users: a bare array is returned unfiltered
page_backup(all, q, pn, ps) ==
  IF q.shape = "list" THEN Step("return", all, q.items)
  ELSE IF q.shape # "dict" THEN Step("raise", all, <<>>)
  ELSE LET results == IF q.key = "results" THEN q.items ELSE <<>>
           all2 == all \o FilterDicts(results)
       IN IF q.total # <<>> /\ Len(all2) >= q.total[1] THEN Step("break", all2, all2)
          ELSE IF Len(results) = 0 THEN Step("break", all2, all2)
          ELSE Step("next", all2, <<>>)

\* update_user_permissions.get_all_users after resp.json(): payload.get on a
\* bare array or scalar raises AttributeError; items are not filtered
page_permissions(all, q, pn, ps) ==
  IF q.shape # "dict" THEN Step("raise", all, <<>>)
  ELSE LET page_results == IF q.key \in {"results", "items"} THEN q.items ELSE <<>>
           all2 == all \o page_results
       IN IF q.total # <<>> /\ Len(all2) >= q.total[1] THEN Step("break", all2, all2)
          ELSE IF page_results = <<>> THEN Step("break", all2, all2)
          ELSE Step("next", all2, <<>>)

\* update_users_new_projects_v2.get_all_users: only an object is accepted,
\* only "results" is read, and with a totalCount the loop stops on
\* page_number * page_size >= total_count
page_v2(all, q, pn, ps) ==
  IF q.shape # "dict" THEN Step("raise", all, <<>>)
  ELSE LET results == IF q.key = "results" THEN q.items ELSE <<>>
           all2 == all \o FilterDicts(results)
       IN IF q.total # <<>>
          THEN IF pn * ps >= q.total[1] THEN Step("break", all2, all2)
               ELSE Step("next", all2, <<>>)
          ELSE IF results = <<>> THEN Step("break", all2, all2)
               ELSE Step("next", all2, <<>>)

\* _extract_total_count, applied while total_expected is still None
extract_total_count(te, q) ==
  IF te # <<>> THEN te
  ELSE IF q.shape = "dict" THEN q.total ELSE <<>>

\* fetch_all_subject_ids_with_progress: ids come from a bare array or from the
\* array under items/results; the result is de-duplicated after the loop
page_subjects(all, q, te, ps) ==
  IF ~(q.shape = "list" \/ (q.shape = "dict" /\ q.key \in {"items", "results"}))
  THEN Step("raise", all, <<>>)
  ELSE LET page_subject_ids == FilterDicts(q.items)
           all2 == all \o page_subject_ids
       IN IF page_subject_ids = <<>> THEN Step("break", all, Dedup(all, {}))
          ELSE IF Len(page_subject_ids) < ps THEN Step("break", all2, Dedup(all2, {}))
          ELSE IF te # <<>> /\ Len(all2) >= te[1] THEN Step("break", all2, Dedup(all2, {}))
          ELSE Step("next", all2, <<>>)

ListPending == [kind |-> "pending", items |-> <<>>]
ListReturned(items) == [kind |-> "returned", items |-> items]
ListRaised == [kind |-> "raised", items |-> <<>>]

Request(pn, ps) == [pageNumber |-> pn, pageSize |-> ps]

\* the error a list request for page pn of size ps raised, if it raised
ErrorsOf(o, pn, ps) ==
  IF o.t = "ok" THEN <<>> ELSE <<[pageNumber |-> pn, pageSize |-> ps, t |-> o.t]>>

\* the page was an object with an integer totalCount that the items
\* collected so far have reached
TotalReached(q, all) == q.shape = "dict" /\ q.total # <<>> /\ Len(all) >= q.total[1]

\* no call of request_with_retry is running
IdleRetry ==
  /\ rr_variant = "none"
  /\ max_retries = 0
  /\ attempt = 0
  /\ last_resp = <<>>
  /\ last_exc = <<>>
  /\ rr_trace = <<>>
  /\ rr_result = [kind |-> "idle", why |-> "", status |-> <<>>, exc |-> <<>>]

InitPage ==
  /\ IdleRetry
  /\ IdleRun
  /\ IdlePlan
  /\ IdleFailure
  /\ IdleProgress
  /\ pg_variant \in PageScripts
  /\ page_size \in PageSizesOf(pg_variant)
  /\ max_pages \in 1..MaxPagesArg
  /\ page_number = 1
  /\ pg_iter = 0
  /\ all_users = <<>>
  /\ total_expected = <<>>
  /\ pg_requests = <<>>
  /\ pg_last = NoPayload
  /\ pg_served = [items |-> <<>>, phase |-> "full", total |-> <<>>]
  /\ pg_result = ListPending
  /\ pg_errors = <<>>

\* the server's side of the walk after it answered a request for pages of
\* size ps with payload q: the items sent, and the phase of the pattern "full
\* pages of objects under results, then one short page, then empty pages, all
\* with the same totalCount or none" ("off" once the pattern is broken)
Serve(h, q, ps, first) ==
  LET wellFormed == q.shape = "dict" /\ q.key = "results" /\ FilterDicts(q.items) = q.items
      sameTotal == first \/ q.total = h.total
      phase == IF h.phase = "off" \/ ~wellFormed \/ ~sameTotal THEN "off"
               ELSE IF h.phase = "full"
                 THEN IF Len(q.items) = ps THEN "full"
                      ELSE IF Len(q.items) < ps THEN "short" ELSE "off"
               ELSE IF q.items = <<>> THEN "short" ELSE "off"
  IN  IF phase = "off" THEN [items |-> <<>>, phase |-> "off", total |-> <<>>]
      ELSE [items |-> h.items \o q.items, phase |-> phase,
            total |-> IF first THEN q.total ELSE h.total]

\* the state after one loop iteration that requested pages of size ps and
\* ended as step r on payload q
AfterStep(r, q, ps) ==
  /\ all_users' = r.all
  /\ pg_last' = q
  /\ pg_served' = Serve(pg_served, q, ps, pg_iter = 0)
  /\ pg_iter' = pg_iter + 1
  /\ page_number' = IF r.stop = "next" THEN page_number + 1 ELSE page_number
  /\ pg_result' = CASE r.stop = "next" -> ListPending
                    [] r.stop = "raise" -> ListRaised
                    [] OTHER -> ListReturned(r.ret)

\* the request or the decoding of its body raised: the walker propagates it
AfterFailure ==
  /\ pg_result' = ListRaised
  /\ pg_iter' = pg_iter + 1
  /\ pg_last' = NoPayload
  /\ pg_served' = [items |-> <<>>, phase |-> "off", total |-> <<>>]
  /\ UNCHANGED <<all_users, page_number>>

\* one iteration of "for _ in range(max_pages)" in update_user_email_domains
GetAllUsers_email_domains ==
  /\ pg_variant = "update_user_email_domains"
  /\ pg_result.kind = "pending"
  /\ pg_iter < max_pages
  /\ pg_requests' = Append(pg_requests, Request(page_number, page_size))
  /\ \E o \in OutcomesFor(all_users) :
       /\ pg_errors' = pg_errors \o ErrorsOf(o, page_number, page_size)
       /\ IF o.t = "ok"
          THEN AfterStep(page_email_domains(all_users, o.payload, page_number, page_size), o.payload, page_size)
          ELSE AfterFailure
  /\ UNCHANGED <<pg_variant, page_size, max_pages, total_expected>>
  /\ UNCHANGED rrVars
  /\ UNCHANGED <<runVars, planVars, flVars, prVars>>

\* one iteration of "for _ in range(max_pages)" in backup_user_permissions
GetAllUsers_backup ==
  /\ pg_variant = "backup_user_permissions"
  /\ pg_result.kind = "pending"
  /\ pg_iter < max_pages
  /\ pg_requests' = Append(pg_requests, Request(page_number, page_size))
  /\ \E o \in OutcomesFor(all_users) :
       /\ pg_errors' = pg_errors \o ErrorsOf(o, page_number, page_size)
       /\ IF o.t = "ok"
          THEN AfterStep(page_backup(all_users, o.payload, page_number, page_size), o.payload, page_size)
          ELSE AfterFailure
  /\ UNCHANGED <<pg_variant, page_size, max_pages, total_expected>>
  /\ UNCHANGED rrVars
  /\ UNCHANGED <<runVars, planVars, flVars, prVars>>

\* "for _ in range(max_pages)" ran out: "return all_users" after the loop
MaxPagesReached ==
  /\ pg_variant \in CappedScripts
  /\ pg_result.kind = "pending"
  /\ pg_iter >= max_pages
  /\ pg_result' = ListReturned(all_users)
  /\ UNCHANGED <<pg_variant, page_size, max_pages, page_number, pg_iter, all_users,
                 total_expected, pg_requests, pg_last, pg_served, pg_errors>>
  /\ UNCHANGED rrVars
  /\ UNCHANGED <<runVars, planVars, flVars, prVars>>

\* update_user_permissions.get_all_users from "if not resp.ok" on, after the
\* request of this iteration gave outcome o with page size ps
PermissionsPage(o, ps) ==
  /\ page_size' = ps
  /\ IF o.t = "ok"
     THEN AfterStep(page_permissions(all_users, o.payload, page_number, ps), o.payload, ps)
     ELSE AfterFailure

FallbackPageSize == 50

FallbackAppliesMut(o, pn, ps) == o.t = "exhausted500" /\ ps > FallbackPageSize

\* "page_number == 1 and page_size > 50 and 'last_status=500' in msg"
FallbackApplies(o, pn, ps) == o.t = "exhausted500" /\ pn = 1 /\ ps > FallbackPageSize

\* one iteration of "while True" in update_user_permissions, with its
\* fallback: a retry-exhausted 500 on page 1 with page_size > 50 sets
\* page_size to 50 and calls request_with_retry once more
GetAllUsers_permissions ==
  /\ pg_variant = "update_user_permissions"
  /\ pg_result.kind = "pending"
  /\ page_number <= PageCap
  /\ \E o1 \in OutcomesFor(all_users) :
       IF FallbackApplies(o1, page_number, page_size)
       THEN /\ pg_requests' = pg_requests \o <<Request(page_number, page_size),
                                                 Request(page_number, FallbackPageSize)>>
            /\ \E o2 \in OutcomesFor(all_users) :
                 /\ pg_errors' = pg_errors \o ErrorsOf(o1, page_number, page_size)
                                           \o ErrorsOf(o2, page_number, FallbackPageSize)
                 /\ PermissionsPage(o2, FallbackPageSize)
       ELSE /\ pg_requests' = Append(pg_requests, Request(page_number, page_size))
            /\ pg_errors' = pg_errors \o ErrorsOf(o1, page_number, page_size)
            /\ PermissionsPage(o1, page_size)
  /\ UNCHANGED <<pg_variant, max_pages, total_expected>>
  /\ UNCHANGED rrVars
  /\ UNCHANGED <<runVars, planVars, flVars, prVars>>

\* one iteration of "while True" in update_users_new_projects_v2
GetAllUsers_v2 ==
  /\ pg_variant = "update_users_new_projects_v2"
  /\ pg_result.kind = "pending"
  /\ page_number <= PageCap
  /\ pg_requests' = Append(pg_requests, Request(page_number, page_size))
  /\ \E o \in OutcomesFor(all_users) :
       /\ pg_errors' = pg_errors \o ErrorsOf(o, page_number, page_size)
       /\ IF o.t = "ok"
          THEN AfterStep(page_v2(all_users, o.payload, page_number, page_size), o.payload, page_size)
          ELSE AfterFailure
  /\ UNCHANGED <<pg_variant, page_size, max_pages, total_expected>>
  /\ UNCHANGED rrVars
  /\ UNCHANGED <<runVars, planVars, flVars, prVars>>

\* one iteration of "while True" in fetch_all_subject_ids_with_progress
FetchSubjectIds ==
  /\ pg_variant = "clinical_concepts_status_docus_count_ALL_subjects"
  /\ pg_result.kind = "pending"
  /\ page_number <= PageCap
  /\ pg_requests' = Append(pg_requests, Request(page_number, page_size))
  /\ \E o \in OutcomesFor(all_users) :
       /\ pg_errors' = pg_errors \o ErrorsOf(o, page_number, page_size)
       /\ IF o.t = "ok"
          THEN LET te == extract_total_count(total_expected, o.payload)
               IN /\ total_expected' = te
                  /\ AfterStep(page_subjects(all_users, o.payload, te, page_size), o.payload, page_size)
          ELSE /\ AfterFailure
               /\ total_expected' = total_expected
  /\ UNCHANGED <<pg_variant, page_size, max_pages>>
  /\ UNCHANGED rrVars
  /\ UNCHANGED <<runVars, planVars, flVars, prVars>>

NextPage ==
  \/ GetAllUsers_email_domains
  \/ GetAllUsers_backup
  \/ MaxPagesReached
  \/ GetAllUsers_permissions
  \/ GetAllUsers_v2
  \/ FetchSubjectIds

SpecPage == InitPage /\ [][NextPage]_vars

-----------------------------------------------------------------------------
(* Properties of the pagination walkers (checked under SpecPage) *)

\* C9: the first request carries page number 1, every later request a page
\* number strictly greater than all earlier ones, and never more than the
\* hard maximum page count (max_pages) of pages are requested.
C9_PagesAdvanceAndBounded ==
  /\ pg_requests # <<>> => pg_requests[1].pageNumber = 1
  /\ \A i \in 1..Len(pg_requests) : \A j \in 1..Len(pg_requests) :
       i < j => pg_requests[i].pageNumber < pg_requests[j].pageNumber
  /\ Len(pg_requests) <= max_pages

\* C10: once a page object with an integer totalCount has been read and the
\* items collected reach that totalCount, no further page is requested; the
\* first page {results: [a, b], totalCount: 2} with pageSize 50 yields [a, b]
\* after exactly one page fetch.
C10_StopsWhenTotalReached ==
  /\ TotalReached(pg_last, all_users) => pg_result.kind # "pending"
  /\ ( /\ Len(pg_requests) = 1
       /\ pg_requests[1].pageSize = 50
       /\ pg_last = [shape |-> "dict", key |-> "results",
                     items |-> <<"a", "b">>, total |-> <<2>>] )
       => pg_result = ListReturned(<<"a", "b">>)

\* the page just read is a well-formed page object (an array of objects
\* under "results") that holds fewer than pageSize items
ShortPage(q, ps) ==
  /\ q.shape = "dict"
  /\ q.key = "results"
  /\ FilterDicts(q.items) = q.items
  /\ Len(q.items) < ps

\* C11: after the first page that holds fewer items than pageSize (or none)
\* the paginator requests no further page, also when that page carries a
\* totalCount that says more items remain.
C11_ShortPageStops ==
  ShortPage(pg_last, page_size) => pg_result.kind # "pending"


\* no id occurs twice in s (items that are not objects carry no id)
NoIdTwice(s) ==
  \A i \in 1..Len(s) : \A j \in 1..Len(s) :
    (i # j /\ s[i] \in ItemIds) => s[i] # s[j]

\* the server has served N distinct items as full pages of size P < N and a
\* final short page, without totalCount or with totalCount = N on every page
ServedInPages ==
  /\ pg_served.phase = "short"
  /\ page_size < Len(pg_served.items)
  /\ NoIdTwice(pg_served.items)
  /\ pg_served.total \in {<<>>, <<Len(pg_served.items)>>}

\* the server has answered the first request with a bare array of distinct
\* objects
ServedAsArray ==
  /\ Len(pg_requests) = 1
  /\ pg_last.shape = "list"
  /\ pg_last.items # <<>>
  /\ FilterDicts(pg_last.items) = pg_last.items
  /\ NoIdTwice(pg_last.items)

C12_PagedPart ==
  ServedInPages =>
    /\ pg_result.kind # "raised"
    /\ pg_result.kind = "returned" => pg_result.items = pg_served.items

C12_ArrayPart ==
  ServedAsArray => pg_result = ListReturned(pg_last.items)

\* C12: N items served as full pages of size P < N followed by a short page
\* are returned exactly, each once, and the same items served as one bare
\* array are returned exactly as well.
C12_PaginationComplete == C12_PagedPart /\ C12_ArrayPart

\* C13: when the list endpoint answers with a bare array (of objects), the
\* paginator requests no further page and, when the array answered the first
\* request, returns that array as the complete result.
C13_BareArrayAccepted ==
  (pg_last.shape = "list" /\ FilterDicts(pg_last.items) = pg_last.items)
    => /\ pg_result.kind = "returned"
       /\ Len(pg_requests) = 1 => pg_result.items = pg_last.items

\* the page just read is neither an array nor an object carrying an array
\* under results / items
Malformed(q) == q.shape = "other" \/ (q.shape = "dict" /\ q.key = "none")

C15_NoDuplicateIds ==
  pg_result.kind = "returned" => NoIdTwice(pg_result.items)

-----------------------------------------------------------------------------
(* One run of a script's main: the per-entity loops *)

\* the scripts whose main is modelled, by kind of loop
SequentialScripts ==
  {"update_user_email_domains", "update_user_permissions", "bulk_create_users_from_csv",
   "update_users_new_projects_v2"}

\* Strings are sequences of atoms; an atom stands for a run of characters.
Atoms == {"bob", "@", " ", "xcures.com", "XCURES.COM", "old.com", "OLD.COM", "new.com"}

\* str.lower() on one atom
LowerAtom(c) ==
  CASE c = "XCURES.COM" -> "xcures.com"
    [] c = "OLD.COM" -> "old.com"
    [] c = "Y" -> "y"
    [] c = "YES" -> "yes"
    [] OTHER -> c

\* str.lower()
Lower(s) == [i \in 1..Len(s) |-> LowerAtom(s[i])]

RECURSIVE LStrip(_, _)
\* str.lstrip(c)
LStrip(s, c) == IF s # <<>> /\ Head(s) = c THEN LStrip(Tail(s), c) ELSE s

RECURSIVE RStrip(_, _)
\* str.rstrip(c)
RStrip(s, c) ==
  IF s # <<>> /\ s[Len(s)] = c THEN RStrip(SubSeq(s, 1, Len(s) - 1), c) ELSE s

\* str.strip()
Strip(s) == RStrip(LStrip(s, " "), " ")

\* Optional[str]
None == [some |-> FALSE, val |-> <<>>]

Some(s) == [some |-> TRUE, val |-> s]

EXCLUDE_DOMAIN == <<"xcures.com">>

\* split_email: (local, domain), domain empty when there is no "@";
\* rsplit("@", 1) cuts at the last "@"
split_email(email) ==
  LET e == Strip(email)
      ats == {i \in 1..Len(e) : e[i] = "@"}
  IN  IF ats = {} THEN <<e, <<>>>>
      ELSE LET k == CHOOSE i \in ats : \A j \in ats : j <= i
           IN  <<SubSeq(e, 1, k - 1), SubSeq(e, k + 1, Len(e))>>

\* should_exclude with the exact comparison (no case folding)
should_excludeMut(email) == split_email(email)[2] = EXCLUDE_DOMAIN

should_exclude(email) == Lower(split_email(email)[2]) = EXCLUDE_DOMAIN

\* a rewrite that does not look at the current domain
rewrite_domainMut(email, from_domain, to_domain) ==
  LET e == Strip(email)
      parts == split_email(e)
  IN  IF e = <<>> \/ ~(\E i \in 1..Len(e) : e[i] = "@") THEN None
      ELSE Some(parts[1] \o <<"@">> \o to_domain)

rewrite_domain(email, from_domain, to_domain) ==
  LET e == Strip(email)
      parts == split_email(e)
  IN  IF e = <<>> \/ ~(\E i \in 1..Len(e) : e[i] = "@") THEN None
      ELSE IF Lower(parts[2]) # Lower(from_domain) THEN None
      ELSE Some(parts[1] \o <<"@">> \o to_domain)

\* args.from_domain.strip().lstrip("@")
normalize_domain(s) == LStrip(Strip(s), "@")

\* the outcome categories a run records
Statuses == {"updated", "skipped", "excluded", "failed", "created", "dry_run"}

\* one element of the listing handed to the loop: a dict with an id, a dict
\* without one, or something that is not a dict
UserItems ==
  { [dict |-> TRUE, id |-> <<"u1">>],
    [dict |-> TRUE, id |-> <<>>],
    [dict |-> FALSE, id |-> <<>>] }

\* what GET /user/{id} can come to: an error raised by get_user_detail's
\* request, a JSON body that is not an object, or an object
DetailError == [kind |-> "error", email |-> <<>>, permissions |-> <<>>, plist |-> FALSE]

DetailNonDict == [kind |-> "nondict", email |-> <<>>, permissions |-> <<>>, plist |-> FALSE]

DetailDict(e, isList, perms) ==
  [kind |-> "dict", email |-> e, permissions |-> perms, plist |-> isList]

\* the write request's fate once it is handed to the transport: a 2xx JSON
\* object, an error raised by the transport, a 2xx body that is not JSON,
\* a 2xx JSON body that is not an object
WriteOutcomes == {"ok", "error", "nonjson", "nondict"}

\* nothing processed yet
NoEntity ==
  [item |-> "none", detail |-> DetailError, write |-> "none",
   status |-> "none", requests |-> <<>>]

\* what the loop body did with one entity
Done(u, d, w, status, requests) ==
  [item |-> u, detail |-> d,
   write |-> IF \E i \in 1..Len(requests) : requests[i] \in {"PUT", "POST"}
             THEN w ELSE "none",
   status |-> status, requests |-> requests]

\* no counter incremented when the listed item carries no id
TallyMut(c, status) == IF status = "skipped" THEN c ELSE [c EXCEPT ![status] = @ + 1]

\* updated += 1, skipped += 1, excluded += 1, failed.append(...), ...
Tally(c, status) == [c EXCEPT ![status] = @ + 1]

NumWrites(requests) == Cardinality({i \in 1..Len(requests) : requests[i] \in {"PUT", "POST"}})

\* the loop has finished with one entity
Record(r) ==
  /\ last' = r
  /\ idx' = idx + 1
  /\ counts' = Tally(counts, r.status)
  /\ outcomes' = Append(outcomes, r.status)
  /\ writes' = writes + NumWrites(r.requests)
  /\ net' = (net \/ r.requests # <<>>)

\* main returns (or the interpreter exits) with this code
Exit(newpc, code) ==
  /\ pc' = newpc
  /\ exit_code' = <<code>>

-----------------------------------------------------------------------------
(* update_user_email_domains.py: main *)

NoArgs ==
  [apply |-> FALSE, dry_run |-> FALSE, only_missing |-> FALSE,
   from_domain |-> <<>>, to_domain |-> <<>>, limit |-> "none"]

\* --limit: not given, a negative integer, an integer >= 0
Limits == {"none", "negative", "nonnegative"}

EmailArgs ==
  [apply : BOOLEAN, dry_run : BOOLEAN, only_missing : BOOLEAN, limit : Limits,
   from_domain : {<<"old.com">>, <<"@", "OLD.COM">>, <<" ", "XCURES.COM">>},
   to_domain : {<<"new.com">>, <<"old.com">>, <<"@", "xcures.com">>}]

\* the email field of a fetched user, absent or empty as <<>>
EmailValues ==
  { <<>>,
    <<"bob">>,
    <<"bob", "@", "old.com">>,
    <<" ", "bob", "@", "OLD.COM", " ">>,
    <<"bob", "@", "new.com">>,
    <<"bob", "@", "xcures.com">>,
    <<"bob", "@", "XCURES.COM", " ">>,
    <<"bob", "@", "old.com", "@", "XCURES.COM">>,
    <<"bob", "@", "xcures.com", "@", "old.com">> }

EmailDetails == {DetailError, DetailNonDict} \cup {DetailDict(e, FALSE, <<>>) : e \in EmailValues}

\* a run that previews only when --dry-run is given
email_dry_runMut(a) == a.dry_run

\* args.dry_run after "if not args.apply and not args.dry_run: args.dry_run = True"
email_dry_run(a) == a.dry_run \/ (~a.apply /\ ~a.dry_run)

\* the body of the per-user loop
email_process(a, u, d, w) ==
  LET from_domain == normalize_domain(a.from_domain)
      to_domain == normalize_domain(a.to_domain)
      email == Strip(d.email)
      new_email == rewrite_domain(email, from_domain, to_domain)
  IN  IF ~u.dict \/ u.id = <<>> THEN Done(u, d, w, "skipped", <<>>)
      ELSE IF d.kind # "dict" THEN Done(u, d, w, "failed", <<"GET">>)
      ELSE IF email = <<>> THEN Done(u, d, w, "skipped", <<"GET">>)
      ELSE IF should_exclude(email) THEN Done(u, d, w, "excluded", <<"GET">>)
      ELSE IF ~new_email.some THEN Done(u, d, w, "skipped", <<"GET">>)
      ELSE IF a.only_missing /\ new_email.val = email
        THEN Done(u, d, w, "skipped", <<"GET">>)
      ELSE IF a.dry_run THEN Done(u, d, w, "updated", <<"GET">>)
      ELSE IF w # "ok" THEN Done(u, d, w, "failed", <<"GET", "PUT">>)
      ELSE Done(u, d, w, "updated", <<"GET", "PUT">>)

\* flag and domain checks, token check, listing, --limit check
Start_email_domains ==
  /\ script = "update_user_email_domains"
  /\ pc = "start"
  /\ IF args.apply /\ args.dry_run
       THEN Exit("exit_early", 2) /\ UNCHANGED <<args, n_users, net>>
     ELSE IF \/ Lower(normalize_domain(args.from_domain)) = Lower(EXCLUDE_DOMAIN)
             \/ Lower(normalize_domain(args.to_domain)) = Lower(EXCLUDE_DOMAIN)
       THEN /\ Exit("exit_early", 2)
            /\ args' = [args EXCEPT !.dry_run = email_dry_run(args)]
            /\ UNCHANGED <<n_users, net>>
     ELSE /\ args' = [args EXCEPT !.dry_run = email_dry_run(args)]
          /\ \/ \* get_bearer_token() raises: no token in the environment
                Exit("exit_early", 1) /\ UNCHANGED <<n_users, net>>
             \/ \* get_all_users raises
                Exit("crashed", 1) /\ net' = TRUE /\ UNCHANGED n_users
             \/ \* the listing returned
                /\ net' = TRUE
                /\ IF args.limit = "negative"
                     THEN Exit("exit_early", 2) /\ UNCHANGED n_users
                     ELSE \/ Exit("done", 0) /\ UNCHANGED n_users
                          \/ \E n \in 1..MaxUsers :
                               /\ n_users' = n
                               /\ pc' = "loop"
                               /\ UNCHANGED exit_code
  /\ UNCHANGED <<script, idx, counts, outcomes, writes, last>>
  /\ UNCHANGED <<prVars, flVars, planVars, rrVars, pgVars, poolVars, persisted>>

ProcessUser_email_domains ==
  /\ script = "update_user_email_domains"
  /\ pc = "loop"
  /\ idx < n_users
  /\ \E u \in {i \in UserItems : i.dict} : \E d \in EmailDetails : \E w \in WriteOutcomes :
       Record(email_process(args, u, d, w))
  /\ UNCHANGED <<script, args, n_users, pc, exit_code>>
  /\ UNCHANGED <<prVars, flVars, planVars, rrVars, pgVars, poolVars, persisted>>

-----------------------------------------------------------------------------
(* update_user_permissions.py: main *)

PERMISSION_TO_ADD == "Summary_Checklist"

\* --only-missing is a store_true flag whose default is already True
PermissionsArgs ==
  {[NoArgs EXCEPT !.dry_run = dr, !.only_missing = TRUE, !.limit = l] :
     dr \in BOOLEAN, l \in Limits}

PermissionLists ==
  {<<>>, <<"Other">>, <<PERMISSION_TO_ADD>>, <<"Other", PERMISSION_TO_ADD>>}

PermissionsDetails ==
  {DetailError, DetailNonDict, DetailDict(<<>>, FALSE, <<>>)}
    \cup {DetailDict(<<>>, TRUE, p) : p \in PermissionLists}

\* the body of the per-user loop, for an item that has .get
permissions_process(a, u, d, w) ==
  LET permissions == IF d.plist THEN d.permissions ELSE <<>>
      already_has == \E i \in 1..Len(permissions) : permissions[i] = PERMISSION_TO_ADD
  IN  IF u.id = <<>> THEN Done(u, d, w, "skipped", <<>>)
      ELSE IF d.kind # "dict" THEN Done(u, d, w, "failed", <<"GET">>)
      ELSE IF already_has /\ a.only_missing THEN Done(u, d, w, "skipped", <<"GET">>)
      ELSE IF a.dry_run THEN Done(u, d, w, "updated", <<"GET">>)
      \* put_user_update: "if not resp.ok: raise", then "return resp.json()",
      \* whose value main does not look at
      ELSE IF w \in {"error", "nonjson"} THEN Done(u, d, w, "failed", <<"GET", "PUT">>)
      ELSE Done(u, d, w, "updated", <<"GET", "PUT">>)

\* bearer check, listing (an error raised by get_all_users is not caught),
\* --limit check
Start_permissions ==
  /\ script = "update_user_permissions"
  /\ pc = "start"
  /\ \/ \* "if not args.bearer": return 2
        Exit("exit_early", 2) /\ UNCHANGED <<n_users, net>>
     \/ \* get_all_users raises
        Exit("crashed", 1) /\ net' = TRUE /\ UNCHANGED n_users
     \/ \* the listing returned
        /\ net' = TRUE
        /\ IF args.limit = "negative"
             THEN \* raise ValueError("--limit must be >= 0")
                  Exit("exit_early", 1) /\ UNCHANGED n_users
             ELSE \/ Exit("done", 0) /\ UNCHANGED n_users
                  \/ \E n \in 1..MaxUsers :
                       /\ n_users' = n
                       /\ pc' = "loop"
                       /\ UNCHANGED exit_code
  /\ UNCHANGED <<script, args, idx, counts, outcomes, writes, last>>
  /\ UNCHANGED <<prVars, flVars, planVars, rrVars, pgVars, poolVars, persisted>>

ProcessUser_permissions ==
  /\ script = "update_user_permissions"
  /\ pc = "loop"
  /\ idx < n_users
  /\ \E u \in {i \in UserItems : i.dict} : \E d \in PermissionsDetails : \E w \in WriteOutcomes :
       Record(permissions_process(args, u, d, w))
  /\ UNCHANGED <<script, args, n_users, pc, exit_code>>
  /\ UNCHANGED <<prVars, flVars, planVars, rrVars, pgVars, poolVars, persisted>>

\* user.get("id") on a listed item that is not a dict, outside the try
ItemNotDict_permissions ==
  /\ script = "update_user_permissions"
  /\ pc = "loop"
  /\ idx < n_users
  /\ \E u \in {i \in UserItems : ~i.dict} :
       last' = [NoEntity EXCEPT !.item = u]
  /\ Exit("aborted", 1)
  /\ UNCHANGED <<script, args, n_users, idx, counts, outcomes, writes>>
  /\ UNCHANGED <<net, prVars, flVars, planVars, rrVars, pgVars, poolVars, persisted>>

-----------------------------------------------------------------------------
(* bulk_create_users_from_csv.py: main *)

\* --dry-run and --apply form a required mutually exclusive group
\* --max-retries: any integer is accepted; 5 is the default
MaxRetriesValues == {-1, 0, 5}

\* --dry-run and --apply are mutually exclusive and one is required
BulkArgs ==
  {[apply |-> ~dr, dry_run |-> dr, only_missing |-> FALSE, from_domain |-> <<>>,
    to_domain |-> <<>>, limit |-> l, max_retries |-> m] :
     dr \in BOOLEAN, l \in Limits, m \in MaxRetriesValues}

sends_requestMut(m) == TRUE

\* request_with_retry(max_retries=m) reaches session.request at least once:
\* the first iteration of "for attempt in range(1, max_retries + 1)" exists
sends_request(m) == LoopContinues(1, m)

\* a CSV row: which of the required columns are non-blank
CsvRows == [email : BOOLEAN, firstName : BOOLEAN, lastName : BOOLEAN]

\* the body of the per-row loop
bulk_process(a, row, w) ==
  IF ~(row.email /\ row.firstName /\ row.lastName)
    THEN Done(row, DetailError, w, "failed", <<>>)
  ELSE IF a.dry_run THEN Done(row, DetailError, w, "dry_run", <<>>)
  \* create_user raises "request_with_retry exhausted; no response"
  ELSE IF ~sends_request(a.max_retries) THEN Done(row, DetailError, w, "failed", <<>>)
  ELSE IF w # "ok" THEN Done(row, DetailError, w, "failed", <<"POST">>)
  ELSE Done(row, DetailError, w, "created", <<"POST">>)

\* token check, CSV read, --limit check: none of them sends a request
Start_bulk_create ==
  /\ script = "bulk_create_users_from_csv"
  /\ pc = "start"
  /\ \/ \* no token, or the CSV cannot be read or lacks a required column
        Exit("exit_early", 2) /\ UNCHANGED n_users
     \/ IF args.limit = "negative"
          THEN Exit("exit_early", 2) /\ UNCHANGED n_users
          ELSE \/ Exit("done", 0) /\ UNCHANGED n_users
               \/ \E n \in 1..MaxUsers :
                    /\ n_users' = n
                    /\ pc' = "loop"
                    /\ UNCHANGED exit_code
  /\ UNCHANGED net
  /\ UNCHANGED <<script, args, idx, counts, outcomes, writes, last>>
  /\ UNCHANGED <<prVars, flVars, planVars, rrVars, pgVars, poolVars, persisted>>

ProcessRow_bulk_create ==
  /\ script = "bulk_create_users_from_csv"
  /\ pc = "loop"
  /\ idx < n_users
  /\ \E row \in CsvRows : \E w \in WriteOutcomes :
       Record(bulk_process(args, row, w))
  /\ UNCHANGED <<script, args, n_users, pc, exit_code>>
  /\ UNCHANGED <<prVars, flVars, planVars, rrVars, pgVars, poolVars, persisted>>

-----------------------------------------------------------------------------
(* update_users_new_projects_v2.py: main *)

\* the project ids get_all_projects found, to be added to every user
target_project_ids == <<"p1">>

\* a fetched user object: its projectIds, a list or not
ProjectsDetails ==
  {DetailError, DetailNonDict, DetailDict(<<>>, FALSE, <<>>)}
    \cup {DetailDict(<<>>, TRUE, p) : p \in {<<>>, <<"p2">>, <<"p1">>, <<"p2", "p1">>}}

\* a loop body that plans and PUTs whatever get_user_detail came to
new_projects_v2_processMut(u, d, w) ==
  IF u.id = <<>> THEN Done(u, d, w, "skipped", <<>>)
  ELSE IF w # "ok" THEN Done(u, d, w, "failed", <<"GET", "PUT">>)
  ELSE Done(u, d, w, "updated", <<"GET", "PUT">>)

\* the body of the per-user loop; the permissions field of the detail
\* stands for projectIds here
new_projects_v2_process(u, d, w) ==
  LET existing == IF d.plist THEN d.permissions ELSE <<>>
      missing == SelectSeq(target_project_ids,
                           LAMBDA pid : ~\E i \in 1..Len(existing) : existing[i] = pid)
  IN  IF u.id = <<>> THEN Done(u, d, w, "skipped", <<>>)
      ELSE IF d.kind # "dict" THEN Done(u, d, w, "failed", <<"GET">>)
      ELSE IF missing = <<>> THEN Done(u, d, w, "skipped", <<"GET">>)
      ELSE IF w # "ok" THEN Done(u, d, w, "failed", <<"GET", "PUT">>)
      ELSE Done(u, d, w, "updated", <<"GET", "PUT">>)

\* what the operator may type at the confirmation prompt
Answers == {<<"Y">>, <<" ", "yes", " ">>, <<"n">>, <<>>, <<"ok">>}

\* the command line of the two scripts that ask for a confirmation is
\* empty; answer is the line input() will read at the prompt
PromptArgs ==
  [apply : {FALSE}, dry_run : {FALSE}, only_missing : {FALSE},
   from_domain : {<<>>}, to_domain : {<<>>}, limit : {"none"}, answer : Answers]

prompt_yes_noMut(raw) == Lower(Strip(raw)) # <<"n">>

\* "raw = input(...).strip().lower(); return raw in ("y", "yes")"
prompt_yes_no(raw) == Lower(Strip(raw)) \in {<<"y">>, <<"yes">>}

\* token check, project listing, confirmation prompt, user listing
Start_new_projects_v2 ==
  /\ script = "update_users_new_projects_v2"
  /\ pc = "start"
  /\ \/ \* get_bearer_token() raises: return 2
        Exit("exit_early", 2) /\ UNCHANGED <<n_users, net>>
     \/ \* get_all_projects or get_all_users raises
        Exit("crashed", 1) /\ net' = TRUE /\ UNCHANGED n_users
     \/ \* no project was found: return 2
        Exit("no_projects", 2) /\ net' = TRUE /\ UNCHANGED n_users
     \/ \* the projects were listed and shown
        /\ net' = TRUE
        /\ IF ~prompt_yes_no(args.answer)
             THEN \* print("Cancelled."); return 0
                  Exit("done", 0) /\ UNCHANGED n_users
             ELSE \E n \in 0..MaxUsers :
                    /\ n_users' = n
                    /\ pc' = "loop"
                    /\ UNCHANGED exit_code
  /\ UNCHANGED <<script, args, idx, counts, outcomes, writes, last>>
  /\ UNCHANGED <<prVars, flVars, planVars, rrVars, pgVars, poolVars, persisted>>

\* duplicate_project.py main up to its confirmation prompt: token check,
\* source id prompt, GET /project, GET /project/{id}, name prompt, payload
\* checks, review, confirmation
Start_duplicate_project ==
  /\ script = "duplicate_project"
  /\ pc = "start"
  /\ \/ \* get_bearer_token() raises, or no source projectId was typed: return 2
        Exit("exit_early", 2) /\ UNCHANGED net
     \/ \* one of the two GETs raises, or its body has the wrong type
        Exit("crashed", 1) /\ net' = TRUE
     \/ \* no new name was typed, or required keys are missing: return 2
        Exit("invalid_input", 2) /\ net' = TRUE
     \/ \* the payload was shown for review
        /\ net' = TRUE
        /\ IF ~prompt_yes_no(args.answer)
             THEN \* print("Cancelled."); return 0
                  Exit("done", 0)
             ELSE pc' = "create" /\ UNCHANGED exit_code
  /\ UNCHANGED <<script, args, n_users, idx, counts, outcomes, writes, last>>
  /\ UNCHANGED <<prVars, flVars, planVars, rrVars, pgVars, poolVars, persisted>>

\* Step 3: POST /project with the normalized payload; an error of the POST
\* or of parse_json is not caught
Create_duplicate_project ==
  /\ script = "duplicate_project"
  /\ pc = "create"
  /\ writes' = writes + 1
  /\ \/ Exit("done", 0)
     \/ Exit("crashed", 1)
  /\ UNCHANGED <<script, args, n_users, idx, counts, outcomes, last>>
  /\ UNCHANGED <<net, prVars, flVars, planVars, rrVars, pgVars, poolVars, persisted>>

\* get_all_users keeps only the listed items that are dicts
ProcessUser_new_projects_v2 ==
  /\ script = "update_users_new_projects_v2"
  /\ pc = "loop"
  /\ idx < n_users
  /\ \E u \in {i \in UserItems : i.dict} : \E d \in ProjectsDetails : \E w \in WriteOutcomes :
       Record(new_projects_v2_process(u, d, w))
  /\ UNCHANGED <<script, args, n_users, pc, exit_code>>
  /\ UNCHANGED <<prVars, flVars, planVars, rrVars, pgVars, poolVars, persisted>>

-----------------------------------------------------------------------------
(* end of a sequential loop: summary and exit status *)

exit_status(s, a, c) ==
  CASE s = "update_user_permissions" -> IF c["failed"] > 0 THEN 1 ELSE 0
    [] s = "bulk_create_users_from_csv" ->
         IF ~a.dry_run /\ c["failed"] > 0 THEN 1 ELSE 0
    [] OTHER -> 0

\* write_results_csv(results, out_dir), called once after the loop: the
\* number of rows the results file then holds
write_results_csv(results) == Len(results)

Finish ==
  /\ script \in SequentialScripts
  /\ pc = "loop"
  /\ idx = n_users
  /\ persisted' = IF script = "bulk_create_users_from_csv"
                   THEN write_results_csv(outcomes) ELSE persisted
  /\ Exit("done", exit_status(script, args, counts))
  /\ UNCHANGED <<script, args, n_users, idx, counts, outcomes, writes, last>>
  /\ UNCHANGED <<net, prVars, flVars, planVars, rrVars, pgVars, poolVars>>

-----------------------------------------------------------------------------
(* clinical_concepts_status_docus_count(_ALL_subjects).py: main, thread pool *)

PoolScripts ==
  {"clinical_concepts_status_docus_count",
   "clinical_concepts_status_docus_count_ALL_subjects"}

\* what one GET of a worker can come to: the expected object, an exception
\* from session.get, a status other than 200, a body that is not JSON, an
\* object without the expected field, JSON that is not an object
GetOutcomes == {"ok", "exception", "non200", "invalid_json", "bad_dict", "nondict"}

\* get_clinical_concepts_loaded / get_document_total_count_for_subject:
\* "value" for (value, status, None), "error" for (None, status, message),
\* "raise" when the call itself raises
get_field(s, o) ==
  CASE o = "ok" -> "value"
    [] o \in {"exception", "non200", "invalid_json", "bad_dict"} -> "error"
    [] o = "nondict" ->
         IF s = "clinical_concepts_status_docus_count_ALL_subjects"
           THEN "error"    \* payload.get(...) if isinstance(payload, dict) else None
           ELSE "raise"    \* payload.get(...) on a value that is not a dict

\* a submitted process_subject call: the subject id it was given, where it
\* stands, and the two fields of its SubjectResult
Future(sid, st, loaded, documents) ==
  [sid |-> sid, st |-> st, loaded |-> loaded, documents |-> documents]

\* lists of n subject ids: the i-th element is id i, except that the second
\* element may repeat the first id
IdLists(n) ==
  {f \in [1..n -> 1..n] : \A i \in 1..n : f[i] = i \/ (i = 2 /\ f[i] = 1)}

\* the ids main submits: read_subject_ids keeps every non-blank CSV value,
\* repeats included; fetch_all_subject_ids_with_progress returns each id once
subject_ids(s, n) ==
  IF s = "clinical_concepts_status_docus_count_ALL_subjects"
    THEN {f \in IdLists(n) : \A i \in 1..n : \A j \in 1..n : f[i] = f[j] => i = j}
    ELSE IdLists(n)

Running(f) == {i \in DOMAIN f : f[i].st \in {"loaded", "documents"}}

\* fetch_token, subject ids, executor.submit for every subject
Start_pool ==
  /\ script \in PoolScripts
  /\ pc = "start"
  /\ net' = TRUE
  /\ \/ Exit("crashed", 1) /\ UNCHANGED <<n_users, fut>>
     \/ \E n \in 0..MaxSubjects : \E ids \in subject_ids(script, n) :
          /\ n_users' = n
          /\ fut' = [i \in 1..n |-> Future(ids[i], "queued", "none", "none")]
          /\ pc' = "collect"
          /\ UNCHANGED exit_code
  /\ UNCHANGED <<script, args, idx, counts, outcomes, writes, last, rows, write_lock, persisted>>
  /\ UNCHANGED <<prVars, flVars, planVars, rrVars, pgVars>>

\* a pool that starts a thread for every work item
WorkerFreeMut(f) == TRUE

\* ThreadPoolExecutor(max_workers=MAX_WORKERS): a work item is taken from the
\* queue only by one of at most MAX_WORKERS worker threads that is idle
WorkerFree(f) == Cardinality(Running(f)) < MAX_WORKERS

\* a free worker takes the oldest queued work item
StartTask(i) ==
  /\ script \in PoolScripts
  /\ pc \in {"collect", "flush", "aborted"}
  /\ i \in DOMAIN fut
  /\ fut[i].st = "queued"
  /\ \A j \in 1..(i - 1) : fut[j].st # "queued"
  /\ WorkerFree(fut)
  /\ fut' = [fut EXCEPT ![i].st = "loaded"]
  /\ UNCHANGED <<script, args, n_users, idx, pc, counts, outcomes, writes, last, exit_code>>
  /\ UNCHANGED <<rows, write_lock, persisted>>
  /\ UNCHANGED <<net, prVars, flVars, planVars, rrVars, pgVars>>

\* process_subject: get_clinical_concepts_loaded
TaskGetLoaded(i) ==
  /\ script \in PoolScripts
  /\ pc \in {"collect", "flush", "aborted"}
  /\ i \in DOMAIN fut
  /\ fut[i].st = "loaded"
  /\ \E o \in GetOutcomes :
       LET r == get_field(script, o)
       IN  fut' = [fut EXCEPT ![i] =
                     Future(@.sid, IF r = "raise" THEN "raised" ELSE "documents", r, "none")]
  /\ UNCHANGED <<script, args, n_users, idx, pc, counts, outcomes, writes, last, exit_code>>
  /\ UNCHANGED <<rows, write_lock, persisted>>
  /\ UNCHANGED <<net, prVars, flVars, planVars, rrVars, pgVars>>

\* process_subject: get_document_total_count_for_subject, return SubjectResult
TaskGetDocuments(i) ==
  /\ script \in PoolScripts
  /\ pc \in {"collect", "flush", "aborted"}
  /\ i \in DOMAIN fut
  /\ fut[i].st = "documents"
  /\ \E o \in GetOutcomes :
       LET r == get_field(script, o)
       IN  fut' = [fut EXCEPT ![i] =
                     Future(@.sid, IF r = "raise" THEN "raised" ELSE "finished", @.loaded, r)]
  /\ UNCHANGED <<script, args, n_users, idx, pc, counts, outcomes, writes, last, exit_code>>
  /\ UNCHANGED <<rows, write_lock, persisted>>
  /\ UNCHANGED <<net, prVars, flVars, planVars, rrVars, pgVars>>

Collected(r) == {r[k].subject : k \in 1..Len(r)}

\* a single row written over the file instead of appended to it
WriteRowMut(r, row) == <<row>>

\* writer.writerow(row) on the file opened once, before the pool starts
WriteRow(r, row) == Append(r, row)

\* the row stays in the buffer
FlushMut(p, r) == p

\* out_file.flush(): every row written so far has reached the file
Flush(p, r) == Len(r)

\* for future in as_completed(futures): future.result(), then
\* "with write_lock: writer.writerow(row)"
CollectResult(i) ==
  /\ script \in PoolScripts
  /\ pc = "collect"
  /\ i \in DOMAIN fut
  /\ i \notin Collected(rows)
  /\ \/ /\ fut[i].st = "finished"
        /\ write_lock = "free"
        /\ write_lock' = "main"
        /\ rows' = WriteRow(rows, [subject |-> i, sid |-> fut[i].sid,
                                   failed |-> "error" \in {fut[i].loaded, fut[i].documents}])
        /\ pc' = "flush"
        /\ UNCHANGED exit_code
     \/ /\ fut[i].st = "raised"
        /\ Exit("aborted", 1)
        /\ UNCHANGED <<rows, write_lock>>
  /\ UNCHANGED <<script, args, n_users, idx, counts, outcomes, writes, last, fut, persisted>>
  /\ UNCHANGED <<net, prVars, flVars, planVars, rrVars, pgVars>>

\* out_file.flush() inside "with write_lock", release, pbar.update(1)
FlushRow ==
  /\ script \in PoolScripts
  /\ pc = "flush"
  /\ persisted' = Flush(persisted, rows)
  /\ write_lock' = "free"
  /\ idx' = idx + 1
  /\ pc' = "collect"
  /\ UNCHANGED <<script, args, n_users, counts, outcomes, writes, last, exit_code, fut, rows>>
  /\ UNCHANGED <<net, prVars, flVars, planVars, rrVars, pgVars>>

\* every future has been consumed: return 0
Finish_pool ==
  /\ script \in PoolScripts
  /\ pc = "collect"
  /\ idx = n_users
  /\ Exit("done", 0)
  /\ UNCHANGED <<script, args, n_users, idx, counts, outcomes, writes, last, poolVars, persisted>>
  /\ UNCHANGED <<net, prVars, flVars, planVars, rrVars, pgVars>>

-----------------------------------------------------------------------------
(* The run machine *)

\* the scripts that ask the operator to confirm before they write
PromptScripts == {"update_users_new_projects_v2", "duplicate_project"}

ArgsOf(s) ==
  CASE s = "update_user_email_domains" -> EmailArgs
    [] s = "update_user_permissions" -> PermissionsArgs
    [] s = "bulk_create_users_from_csv" -> BulkArgs
    [] s \in PromptScripts -> PromptArgs
    [] OTHER -> {NoArgs}

Init ==
  /\ IdleRetry
  /\ IdlePage
  /\ IdlePlan
  /\ IdleFailure
  /\ IdleProgress
  /\ script \in SequentialScripts \cup PoolScripts \cup {"duplicate_project"}
  /\ args \in ArgsOf(script)
  /\ n_users = 0
  /\ idx = 0
  /\ pc = "start"
  /\ counts = [s \in Statuses |-> 0]
  /\ outcomes = <<>>
  /\ writes = 0
  /\ last = NoEntity
  /\ exit_code = <<>>
  /\ fut = <<>>
  /\ rows = <<>>
  /\ write_lock = "free"
  /\ persisted = 0
  /\ net = FALSE

Next ==
  \/ Start_email_domains
  \/ ProcessUser_email_domains
  \/ Start_permissions
  \/ ProcessUser_permissions
  \/ ItemNotDict_permissions
  \/ Start_bulk_create
  \/ ProcessRow_bulk_create
  \/ Start_new_projects_v2
  \/ ProcessUser_new_projects_v2
  \/ Start_duplicate_project
  \/ Create_duplicate_project
  \/ Finish
  \/ Start_pool
  \/ \E i \in 1..MaxSubjects : StartTask(i)
  \/ \E i \in 1..MaxSubjects : TaskGetLoaded(i)
  \/ \E i \in 1..MaxSubjects : TaskGetDocuments(i)
  \/ \E i \in 1..MaxSubjects : CollectResult(i)
  \/ FlushRow
  \/ Finish_pool

Spec == Init /\ [][Next]_vars

\* a run of one of the two thread-pool scripts, with worker threads that keep
\* running: every GET returns or times out (REQUEST_TIMEOUT_SECONDS), and an
\* idle worker takes the next queued item
InitPool == Init /\ script \in PoolScripts

NextPool ==
  \/ Start_pool
  \/ \E i \in 1..MaxSubjects : StartTask(i)
  \/ \E i \in 1..MaxSubjects : TaskGetLoaded(i)
  \/ \E i \in 1..MaxSubjects : TaskGetDocuments(i)
  \/ \E i \in 1..MaxSubjects : CollectResult(i)
  \/ FlushRow
  \/ Finish_pool

SpecPool ==
  /\ InitPool
  /\ [][NextPool]_vars
  /\ WF_vars(\E i \in 1..MaxSubjects : StartTask(i))
  /\ WF_vars(\E i \in 1..MaxSubjects : TaskGetLoaded(i))
  /\ WF_vars(\E i \in 1..MaxSubjects : TaskGetDocuments(i))

-----------------------------------------------------------------------------
(* The mutation planning of one entity: from the fetched detail record to   *)
(* the decision to skip or to PUT, and the payload of that PUT              *)

\* the scripts that plan a change of a user record; the old notebook script
\* has two pieces of planning code, its module-level loop and its function
\* update_user_permissions(user_id, user, coming, going, ...)
PlanScripts ==
  {"update_users_new_projects", "update_users_new_projects.update_user_permissions",
   "update_users_new_projects_v2", "update_user_permissions",
   "update_user_email_domains"}

\* JSON values of a detail record: a key that is missing, null, a string
\* (a sequence of atoms), or an array of strings
Absent == [t |-> "absent", v |-> <<>>]

Null == [t |-> "null", v |-> <<>>]

Str(s) == [t |-> "str", v |-> s]

List(s) == [t |-> "list", v |-> s]

\* the keys of a user detail record that the model tells apart
DetailKeys == {"id", "email", "firstName", "npi", "permissions", "projectIds"}

\* the field a script is about
TargetKey(v) ==
  CASE v \in {"update_users_new_projects", "update_users_new_projects_v2"} -> "projectIds"
    [] v = "update_user_email_domains" -> "email"
    [] OTHER -> "permissions"

\* x in c
Contains(c, x) == \E i \in 1..Len(c) : c[i] = x

RECURSIVE AppendMissing(_, _)
\* for i in coming: if i not in c: c.append(i)
AppendMissing(c, coming) ==
  IF coming = <<>> THEN c
  ELSE AppendMissing(IF Contains(c, Head(coming)) THEN c ELSE Append(c, Head(coming)),
                     Tail(coming))

\* list.remove(x): removes the first occurrence of x
Remove(c, x) ==
  LET k == CHOOSE i \in 1..Len(c) : c[i] = x /\ \A j \in 1..(i - 1) : c[j] # x
  IN  SubSeq(c, 1, k - 1) \o SubSeq(c, k + 1, Len(c))

RECURSIVE RemovePresent(_, _)
\* for j in going: if j in c: c.remove(j)
RemovePresent(c, going) ==
  IF going = <<>> THEN c
  ELSE RemovePresent(IF Contains(c, Head(going)) THEN Remove(c, Head(going)) ELSE c,
                     Tail(going))

\* what a planning pass decided: it raised, it skipped the user (noop), or
\* it hands payload to the PUT
NoPlan == [raised |-> FALSE, noop |-> FALSE, put |-> FALSE, payload |-> <<>>]

Raise(d) == [raised |-> TRUE, noop |-> FALSE, put |-> FALSE, payload |-> d]

Noop(d) == [raised |-> FALSE, noop |-> TRUE, put |-> FALSE, payload |-> d]

Put(d) == [raised |-> FALSE, noop |-> FALSE, put |-> TRUE, payload |-> d]

\* update_users_new_projects.py, update_user_permissions: user['permissions']
\* is subscripted only inside the two loops; requests.put(json=user) always
update_user_permissions(user, coming, going) ==
  LET p == user["permissions"]
  IN  IF coming = <<>> /\ going = <<>> THEN Put(user)
      ELSE IF p.t # "list" THEN Raise(user)
      ELSE Put([user EXCEPT !["permissions"] =
                  List(RemovePresent(AppendMissing(p.v, coming), going))])

\* update_users_new_projects.py, the body of "for idx in range(total_users)"
\* after get_user_permissions returned the record
plan_new_projects(user, projects) ==
  LET p == user["projectIds"]
  IN  IF projects = <<>> THEN update_user_permissions(user, <<>>, <<>>)
      ELSE IF p.t # "list" THEN Raise(user)
      ELSE update_user_permissions(
             [user EXCEPT !["projectIds"] = List(AppendMissing(p.v, projects))],
             <<>>, <<>>)

\* update_users_new_projects_v2.py, main: the try block after get_user_detail
plan_new_projects_v2(user_obj, pids) ==
  LET p == user_obj["projectIds"]
      existing == IF p.t = "list" THEN p.v ELSE <<>>
      missing == SelectSeq(pids, LAMBDA pid : ~Contains(existing, pid))
  IN  IF missing = <<>> THEN Noop(user_obj)
      ELSE Put([user_obj EXCEPT !["projectIds"] = List(existing \o missing)])

\* the UpdateUserDto keys, of the keys the model tells apart
allowed_keys == {"email", "firstName", "npi", "permissions", "projectIds"}

\* a payload builder that keeps the three fields the scripts edit
make_update_payload_from_user_detailMut(user_detail) ==
  [k \in DetailKeys |->
     IF k \notin {"email", "permissions", "projectIds"} THEN Absent
     ELSE IF k \in {"permissions", "projectIds"} /\ user_detail[k] = Null THEN List(<<>>)
     ELSE user_detail[k]]

make_update_payload_from_user_detail(user_detail) ==
  [k \in DetailKeys |->
     IF k \notin allowed_keys THEN Absent
     ELSE IF k \in {"permissions", "projectIds"} /\ user_detail[k] = Null THEN List(<<>>)
     ELSE user_detail[k]]

\* update_user_permissions.py, main: the try block after get_user_detail;
\* args.only_missing is always True
plan_permissions(detail) ==
  LET g == detail["permissions"]
      permissions == IF g.t = "list" THEN g.v ELSE <<>>
      already_has == Contains(permissions, PERMISSION_TO_ADD)
  IN  IF already_has THEN Noop(detail)
      ELSE Put([make_update_payload_from_user_detail(detail) EXCEPT
                  !["permissions"] = List(Append(permissions, PERMISSION_TO_ADD))])

\* str(detail.get("email") or "").strip()
email_of(detail) == IF detail["email"].t = "str" THEN Strip(detail["email"].v) ELSE <<>>

\* update_user_email_domains.py, main: the try block after get_user_detail
plan_email_domains(detail, a) ==
  LET email == email_of(detail)
      new_email == rewrite_domain(email, normalize_domain(a.from_domain),
                                  normalize_domain(a.to_domain))
  IN  IF email = <<>> THEN Noop(detail)
      ELSE IF should_exclude(email) THEN Noop(detail)
      ELSE IF ~new_email.some THEN Noop(detail)
      ELSE IF a.only_missing /\ new_email.val = email THEN Noop(detail)
      ELSE Put([k \in DetailKeys |->
                  IF k = "email" THEN Str(new_email.val)
                  ELSE IF detail[k] = Null THEN Absent
                  ELSE detail[k]])

PlanOf(v, d, a) ==
  CASE v = "update_users_new_projects" -> plan_new_projects(d, a.projects)
    [] v = "update_users_new_projects.update_user_permissions" ->
         update_user_permissions(d, a.coming, a.going)
    [] v = "update_users_new_projects_v2" -> plan_new_projects_v2(d, a.projects)
    [] v = "update_user_permissions" -> plan_permissions(d)
    [] v = "update_user_email_domains" -> plan_email_domains(d, a)

\* the values a collection can hold
CollValues(v) ==
  IF TargetKey(v) = "projectIds" THEN {"p1", "p2"} ELSE {"Other", PERMISSION_TO_ADD}

NoTargets ==
  [coming |-> <<>>, going |-> <<>>, projects |-> <<>>,
   from_domain |-> <<>>, to_domain |-> <<>>, only_missing |-> FALSE]

\* the change a run asks for
TargetsOf(v) ==
  CASE v \in {"update_users_new_projects", "update_users_new_projects_v2"} ->
         {[NoTargets EXCEPT !.projects = s] :
            s \in SeqsUpTo(CollValues(v), MaxTargets) \ {<<>>}}
    [] v = "update_users_new_projects.update_user_permissions" ->
         {[NoTargets EXCEPT !.coming = c, !.going = g] :
            c \in SeqsUpTo(CollValues(v), MaxTargets),
            g \in SeqsUpTo(CollValues(v), MaxTargets)}
    [] v = "update_user_permissions" -> {NoTargets}
    [] v = "update_user_email_domains" ->
         {[NoTargets EXCEPT !.from_domain = f, !.to_domain = t, !.only_missing = o] :
            f \in {<<"old.com">>, <<"@", "OLD.COM">>},
            t \in {<<"new.com">>, <<"old.com">>},
            o \in BOOLEAN}

\* the collection a script is about: missing, null, or an array that may
\* hold a value more than once
Collections(v) ==
  {Absent, Null} \cup {List(s) : s \in SeqsUpTo(CollValues(v), MaxColl)}

\* the detail records a GET can return to a script
DetailsOf(v) ==
  LET scalar == {Absent, Null, Str(<<"bob">>)}
      other == {Absent, Null, List(<<"x">>)}
      emails == {Absent, Null} \cup {Str(e) : e \in EmailValues}
  IN  CASE v = "update_user_email_domains" ->
             {[id |-> Str(<<"u1">>), email |-> e, firstName |-> f, npi |-> n,
               permissions |-> List(<<"Other">>), projectIds |-> o] :
                e \in emails, f \in scalar, n \in scalar, o \in other}
        [] v = "update_users_new_projects.update_user_permissions" ->
             {[id |-> Str(<<"u1">>), email |-> Str(<<"bob">>), firstName |-> Str(<<"bob">>),
               npi |-> Null, permissions |-> c, projectIds |-> List(<<"x">>)] :
                c \in Collections(v)}
        [] v = "update_user_permissions" ->
             {[id |-> Str(<<"u1">>), email |-> Str(<<"bob">>), firstName |-> f, npi |-> n,
               permissions |-> c, projectIds |-> o] :
                f \in scalar, n \in scalar, c \in Collections(v), o \in other}
        [] OTHER ->
             {[id |-> Str(<<"u1">>), email |-> Str(<<"bob">>), firstName |-> f, npi |-> n,
               permissions |-> o, projectIds |-> c] :
                f \in scalar, n \in scalar, c \in Collections(v), o \in other}

InitPlan ==
  /\ IdleRetry
  /\ IdlePage
  /\ IdleRun
  /\ IdleFailure
  /\ IdleProgress
  /\ pl_variant \in PlanScripts
  /\ pl_detail \in DetailsOf(pl_variant)
  /\ pl_targets \in TargetsOf(pl_variant)
  /\ pl_plan = NoPlan
  /\ pl_round = 0

\* the planning code runs on the fetched detail
PlanFirst ==
  /\ pl_round = 0
  /\ pl_plan' = PlanOf(pl_variant, pl_detail, pl_targets)
  /\ pl_round' = 1
  /\ UNCHANGED <<pl_variant, pl_detail, pl_targets>>
  /\ UNCHANGED <<rrVars, pgVars, runVars, flVars, prVars>>

\* the server stores the PUT: the detail now carries the planned value of
\* the targeted field
Merge(v, d, plan) ==
  IF plan.put THEN [d EXCEPT ![TargetKey(v)] = plan.payload[TargetKey(v)]] ELSE d

MergeResult ==
  /\ pl_round = 1
  /\ ~pl_plan.raised
  /\ pl_detail' = Merge(pl_variant, pl_detail, pl_plan)
  /\ pl_round' = 2
  /\ UNCHANGED <<pl_variant, pl_targets, pl_plan>>
  /\ UNCHANGED <<rrVars, pgVars, runVars, flVars, prVars>>

\* a second run of the script, with the same targets, fetches the merged
\* detail and plans again
PlanAgain ==
  /\ pl_round = 2
  /\ pl_plan' = PlanOf(pl_variant, pl_detail, pl_targets)
  /\ pl_round' = 3
  /\ UNCHANGED <<pl_variant, pl_detail, pl_targets>>
  /\ UNCHANGED <<rrVars, pgVars, runVars, flVars, prVars>>

NextPlan == PlanFirst \/ MergeResult \/ PlanAgain

SpecPlan == InitPlan /\ [][NextPlan]_vars

-----------------------------------------------------------------------------
(* Properties of a run (checked under Spec) *)

IsWrite(m) == m \in {"PUT", "POST"}

Sent(requests, m) == \E i \in 1..Len(requests) : requests[i] = m

Occurrences(s, x) == Cardinality({i \in 1..Len(s) : s[i] = x})

RECURSIVE SumOver(_, _)
SumOver(c, S) ==
  IF S = {} THEN 0
  ELSE LET s == CHOOSE x \in S : TRUE IN c[s] + SumOver(c, S \ {s})

\* the run was started in the mode that only previews
DryRunMode ==
  \/ script = "update_user_permissions" /\ args.dry_run
  \/ script = "update_user_email_domains" /\ ~args.apply
  \/ script = "bulk_create_users_from_csv" /\ args.dry_run

\* C1: in dry-run mode (update_user_permissions --dry-run,
\* update_user_email_domains without --apply, bulk_create_users_from_csv
\* --dry-run) no PUT or POST is ever handed to the transport, whatever the
\* number of entities and whatever the server answers to the reads.
C1_DryRunNeverWrites ==
  DryRunMode =>
    /\ writes = 0
    /\ \A i \in 1..Len(last.requests) : ~IsWrite(last.requests[i])

\* a finished dry run of update_user_email_domains started with neither flag,
\* whose last user had an email to rewrite
C1_Witness ==
  /\ script = "update_user_email_domains"
  /\ ~args.apply
  /\ pc = "done"
  /\ idx = MaxUsers
  /\ last.status = "updated"
  /\ last.requests = <<"GET">>
  /\ writes = 0

\* the domain of the email, after the last "@", is xcures.com in any case
ProtectedEmail(e) ==
  LET s == Strip(e)
  IN  /\ Len(s) >= 2
      /\ s[Len(s) - 1] = "@"
      /\ LowerAtom(s[Len(s)]) = "xcures.com"

\* C2: a user whose fetched email has the domain xcures.com (in any letter
\* case) is counted as excluded and no PUT is issued for that user, whatever
\* --apply / --dry-run, --only-missing, --from-domain and --to-domain are.
C2_ProtectedDomainNeverPut ==
  ( /\ script = "update_user_email_domains"
    /\ Sent(last.requests, "GET")
    /\ last.detail.kind = "dict"
    /\ ProtectedEmail(last.detail.email) )
  => /\ last.status = "excluded"
     /\ ~Sent(last.requests, "PUT")

\* an --apply run fetched a user whose address ends in @XCURES.COM
C2_Witness ==
  /\ script = "update_user_email_domains"
  /\ args.apply
  /\ args.only_missing
  /\ idx >= 1
  /\ last.detail.email = <<"bob", "@", "old.com", "@", "XCURES.COM">>
  /\ last.status = "excluded"

\* the detail fetch of the entity failed: an error, or a body that is not
\* a JSON object
FetchFailed(r) == Sent(r.requests, "GET") /\ r.detail.kind # "dict"

\* the entity finished last failed in its detail fetch or in its write
PipelineFailed(r) ==
  \/ FetchFailed(r)
  \/ r.write \in {"error", "nonjson", "nondict"}

\* C3: a failure while one entity is processed (detail fetch error,
\* unexpected response shape, apply error) is recorded as a failed outcome of
\* that entity and never aborts the run, in the sequential loops and in the
\* loop that collects the thread pool's futures.
C3_EntityFailureIsolated ==
  /\ pc # "aborted"
  /\ (last.status # "none" /\ PipelineFailed(last)) => last.status = "failed"
  /\ \A k \in 1..Len(rows) :
       rows[k].failed <=> "error" \in {fut[rows[k].subject].loaded,
                                       fut[rows[k].subject].documents}

C16_NoIdProcessedTwiceAtOnce ==
  \A i \in Running(fut) : \A j \in Running(fut) :
    i # j => fut[i].sid # fut[j].sid

Queued(i) == i \in DOMAIN fut /\ fut[i].st = "queued"

\* C17: at every moment at most MAX_WORKERS process_subject calls are
\* executing, and every subject id that waits in the queue is eventually
\* started.
C17_AtMostMaxWorkers ==
  /\ [](Cardinality(Running(fut)) <= MAX_WORKERS)
  /\ (\E i \in 1..MaxSubjects : Queued(i)) ~> (\A i \in 1..MaxSubjects : ~Queued(i))

\* the pool is full and a subject waits in the queue
C17_Witness ==
  /\ Cardinality(Running(fut)) = MAX_WORKERS
  /\ \E i \in 1..MaxSubjects : Queued(i)

\* C18: writes to the results CSV are mutually exclusive: a row that is
\* written and not yet flushed belongs to the one holder of write_lock, at
\* most one such row exists, and it is flushed before the lock is free for
\* the next writer.
C18_WritesExclusive ==
  script \in PoolScripts =>
    /\ persisted <= Len(rows)
    /\ Len(rows) - persisted <= 1
    /\ Len(rows) > persisted => write_lock = "main" /\ pc = "flush"
    /\ write_lock = "free" => persisted = Len(rows)
    /\ write_lock # "free" => pc = "flush"

\* the second row is written and not flushed, the first one is in the file
C18_Witness ==
  /\ script \in PoolScripts
  /\ write_lock = "main"
  /\ Len(rows) = 2
  /\ persisted = 1

\* C19: results are persisted incrementally: at any moment the run may be
\* killed, every outcome row completed so far, except at most the one in
\* flight, is already in the results file.
C19_PersistedIncrementally ==
  /\ script \in PoolScripts => Len(rows) - persisted <= 1
  /\ script = "bulk_create_users_from_csv" => Len(outcomes) - persisted <= 1

IsPrefix(s, u) == Len(s) <= Len(u) /\ SubSeq(u, 1, Len(s)) = s

\* C20: the persisted result rows only grow: the rows before a step are a
\* prefix of the rows after it, and the number of rows that reached the file
\* never decreases.
C20_RowsOnlyGrow ==
  [][IsPrefix(rows, rows') /\ persisted <= persisted']_vars

\* two rows have been written and flushed
C20_Witness ==
  /\ script \in PoolScripts
  /\ Len(rows) >= 2
  /\ persisted = Len(rows)

\* the scripts whose loop fetches an entity's detail before it changes it
FetchingScripts ==
  {"update_user_email_domains", "update_user_permissions", "update_users_new_projects_v2"}

\* C21: within one entity's pipeline the detail GET comes first, and a PUT
\* is sent only after that GET has returned the entity's record: no PUT
\* without a successful detail GET before it.
C21_FetchBeforeWrite ==
  script \in FetchingScripts =>
    (Sent(last.requests, "PUT") =>
       /\ last.requests = <<"GET", "PUT">>
       /\ last.detail.kind = "dict")

\* update_users_new_projects_v2 fetched a user that lacks the project and
\* then PUT it
C21_Witness ==
  /\ script = "update_users_new_projects_v2"
  /\ last.requests = <<"GET", "PUT">>
  /\ last.detail.kind = "dict"
  /\ last.status = "updated"

-----------------------------------------------------------------------------
(* Properties of a plan (checked under SpecPlan) *)

\* the scripts that plan a change of permissions or projectIds
CollectionScripts == PlanScripts \ {"update_user_email_domains"}

\* C22: planning is idempotent: once the first plan's result is merged into
\* the detail, planning again with the same targets skips the user (noop),
\* issues no write and leaves the collection as it is.
C22_PlanningIdempotent ==
  (pl_variant \in CollectionScripts /\ pl_round = 3) =>
    /\ pl_plan.noop
    /\ ~pl_plan.put
    /\ pl_plan.payload[TargetKey(pl_variant)] = pl_detail[TargetKey(pl_variant)]

Disjoint(c, g) == \A i \in 1..Len(c) : ~Contains(g, c[i])

\* C23: after update_user_permissions(user, coming, going) has planned the
\* permissions, every value of coming is in the collection, no value of
\* going is in it, and the values in neither list are as they were, for any
\* current collection, also one that holds a value more than once.
C23_ComingPresentGoingAbsent ==
  (/\ pl_variant = "update_users_new_projects.update_user_permissions"
   /\ pl_round = 1
   /\ ~pl_plan.raised
   /\ pl_detail["permissions"].t = "list"
   /\ Disjoint(pl_targets.coming, pl_targets.going)) =>
    LET before == pl_detail["permissions"].v
        after == pl_plan.payload["permissions"].v
        untouched(x) == ~Contains(pl_targets.coming, x) /\ ~Contains(pl_targets.going, x)
    IN  /\ \A i \in 1..Len(pl_targets.coming) : Contains(after, pl_targets.coming[i])
        /\ \A i \in 1..Len(pl_targets.going) : ~Contains(after, pl_targets.going[i])
        /\ SelectSeq(after, untouched) = SelectSeq(before, untouched)

\* the detail already holds what the run is to ensure
Satisfied(v, d, a) ==
  IF TargetKey(v) = "projectIds"
    THEN /\ d["projectIds"].t = "list"
         /\ \A i \in 1..Len(a.projects) : Contains(d["projectIds"].v, a.projects[i])
    ELSE /\ d["permissions"].t = "list"
         /\ Contains(d["permissions"].v, PERMISSION_TO_ADD)

\* C24: when the entity's collection already holds every target project id,
\* or the target permission, the plan is a noop and no PUT is issued.
C24_SatisfiedIsNoop ==
  (/\ pl_variant \in {"update_users_new_projects", "update_users_new_projects_v2",
                      "update_user_permissions"}
   /\ pl_round = 1
   /\ Satisfied(pl_variant, pl_detail, pl_targets)) =>
    /\ pl_plan.noop
    /\ ~pl_plan.put

-----------------------------------------------------------------------------
(* Properties of a run, continued (checked under Spec) *)

\* the last entity of update_user_email_domains had an email to look at
EmailLooked ==
  /\ script = "update_user_email_domains"
  /\ last.status # "none"
  /\ last.item.id # <<>>
  /\ last.detail.kind = "dict"
  /\ Strip(last.detail.email) # <<>>

\* the domain of the last entity's email is --from-domain
DomainMatches ==
  Lower(split_email(Strip(last.detail.email))[2]) = Lower(normalize_domain(args.from_domain))

\* the email with its domain replaced by --to-domain is the email itself
RewriteUnchanged ==
  LET email == Strip(last.detail.email)
  IN  split_email(email)[1] \o <<"@">> \o normalize_domain(args.to_domain) = email

NoopNoPut ==
  /\ last.status \in {"skipped", "excluded"}
  /\ ~Sent(last.requests, "PUT")

\* C25 as stated: the plan is a noop and no PUT is issued whenever the
\* rewritten email equals the current one or the domain does not match
\* --from-domain, whatever --only-missing and the mode are.
C25_UnchangedOrUnmatchedIsNoop ==
  (EmailLooked /\ (~DomainMatches \/ RewriteUnchanged)) => NoopNoPut

\* C25 as the code has it: an email whose domain is not --from-domain is a
\* noop without a PUT whatever --only-missing and the mode are; an email the
\* rewrite leaves unchanged is a noop only under --only-missing, and without
\* that flag it is counted as updated and, in apply mode, PUT.
C25_UnmatchedIsNoop ==
  /\ (EmailLooked /\ ~DomainMatches) => NoopNoPut
  /\ (EmailLooked /\ RewriteUnchanged /\ args.only_missing) => NoopNoPut
  /\ (EmailLooked /\ DomainMatches /\ RewriteUnchanged /\ ~args.only_missing
        /\ ~should_exclude(Strip(last.detail.email))) =>
       /\ last.status \in {"updated", "failed"}
       /\ args.dry_run \/ Sent(last.requests, "PUT")

\* an apply run with --only-missing skipped a user whose email already has
\* the target domain
C25_Witness ==
  /\ EmailLooked
  /\ args.apply
  /\ args.only_missing
  /\ DomainMatches
  /\ RewriteUnchanged
  /\ last.status = "skipped"
  /\ last.requests = <<"GET">>

-----------------------------------------------------------------------------
(* Properties of a plan, continued (checked under SpecPlan) *)

\* the keys of the detail other than the one the script is about
OtherKeys == DetailKeys \ {TargetKey(pl_variant)}

-----------------------------------------------------------------------------
(* Properties of a run, continued (checked under Spec) *)

\* C27: a dry run records an entity with a non-noop plan apart from the
\* applied ones: in dry-run mode no entity is recorded or counted as
\* updated or created.
C27_DryRunRecordedApart ==
  (script \in SequentialScripts /\ DryRunMode) =>
    /\ counts["updated"] = 0
    /\ counts["created"] = 0
    /\ \A i \in 1..Len(outcomes) : outcomes[i] \notin {"updated", "created"}

\* C28: a bulk script exits with code 0 exactly when it ran to its end with
\* no failed entity (zero entities included), and with a non-zero code when
\* an entity failed or a precondition was not met.
C28_ExitZeroIffNoFailure ==
  (script \in SequentialScripts /\ exit_code # <<>>) =>
    (exit_code = <<0>> <=> (pc = "done" /\ counts["failed"] = 0))

\* C29: a precondition failure (no token, conflicting or invalid flags such
\* as --apply with --dry-run or a negative --limit) ends the run with a
\* non-zero exit code before any request has been sent and before any
\* output file has been written.
C29_PreconditionFailsBeforeNetwork ==
  pc = "exit_early" =>
    /\ exit_code \notin {<<>>, <<0>>}
    /\ ~net
    /\ persisted = 0

\* the unit finished last failed input validation: a listed item without an
\* id, or a CSV row with a blank required field
InvalidUnit ==
  /\ last.status # "none"
  /\ IF script = "bulk_create_users_from_csv"
       THEN ~(last.item.email /\ last.item.firstName /\ last.item.lastName)
       ELSE last.item.id = <<>>

\* C30: a list item with no entity id, or a bulk-creation row with a missing
\* required field, skips that one unit and is recorded apart from the
\* failures: it is never counted as failed.
C30_InvalidUnitNotFailed ==
  (script \in SequentialScripts /\ InvalidUnit) =>
    /\ last.status # "failed"
    /\ last.requests = <<>>

-----------------------------------------------------------------------------
(* One failed attempt: the wait before the next attempt and the text of the *)
(* error raised (SpecFailure).  A body is known by its length only: pad    *)
(* characters of surrounding whitespace and text characters between them.  *)

\* largest value of the loop variable "attempt" explored
MaxAttempt == 6

\* largest backoff_seconds argument explored, in seconds (default 1.0)
MaxBackoff == 3

\* the longest Retry-After hint the stub server sends, in seconds
MaxHint == 30

\* the longest response body the stub server sends, in characters
MaxBody == 5000

Min(a, b) == IF a <= b THEN a ELSE b

\* update_user_permissions.request_with_retry has no backoff_seconds argument
BackoffsOf(v) == IF v = "update_user_permissions" THEN {0} ELSE 1..MaxBackoff

\* statuses of the response of the failed attempt
FailureStatuses == {200, 404, 429, 500}

\* the Retry-After header of a response: absent, or a number of seconds
RetryAfterHints == {<<>>, <<1>>, <<MaxHint>>}

\* body lengths around every truncation limit of the scripts
BodyLengths == {0, 300, 800, 801, 1200, 1201, MaxBody}

Bodies == [pad : {0, 2}, text : BodyLengths]

\* session.request raised a network error: there is no response
NoResponse == [status |-> 0, retry_after |-> <<>>, body |-> [pad |-> 0, text |-> 0]]

Responses == [status : FailureStatuses, retry_after : RetryAfterHints, body : Bodies]

sleep_sMut(v, a, b) ==
  IF v = "update_user_permissions" THEN Min(2 ^ a, 20) ELSE b * (2 ^ a)

\* the argument of time.sleep after failed attempt a:
\* "min(2 ** attempt, 20)" in update_user_permissions,
\* "backoff_seconds * (2 ** (attempt - 1))" in the five other scripts.
\* No request_with_retry reads the Retry-After header of the response.
sleep_s(v, a, b) ==
  IF v = "update_user_permissions" THEN Min(2 ^ a, 20) ELSE b * (2 ^ (a - 1))

\* the limit argument the script's raise statements pass to its preview
\* function (or that function's default)
preview_limit(v) ==
  IF v \in {"bulk_create_users_from_csv", "duplicate_project"} THEN 1200 ELSE 800

\* body_preview / _body_preview / safe_json_preview: strip the text, keep
\* it whole up to limit characters, else its first limit characters and a
\* truncation mark
body_preview(body, limit) ==
  [chars |-> IF body.text > limit THEN limit ELSE body.text,
   truncated |-> body.text > limit]

error_bodyMut(v, site, body) ==
  IF site = "not_ok"
  THEN body_preview(body, preview_limit(v))
  ELSE IF site = "non_json" /\ v = "update_user_permissions"
       THEN [chars |-> 0, truncated |-> FALSE]
       ELSE body_preview(body, preview_limit(v))

\* the part of the raised message that comes from the response body.
\* site not_ok is update_user_permissions' "if not resp.ok: raise
\* RuntimeError(f"... {resp.status_code} {resp.text}")": the whole text,
\* not stripped.  update_user_permissions has no parse_json: resp.json()
\* raises a decode error whose message holds none of the body.
error_body(v, site, body) ==
  IF site = "not_ok"
  THEN [chars |-> body.pad + body.text, truncated |-> FALSE]
  ELSE IF site = "non_json" /\ v = "update_user_permissions"
       THEN [chars |-> 0, truncated |-> FALSE]
       ELSE body_preview(body, preview_limit(v))

InitFailure ==
  /\ IdleRetry
  /\ IdlePage
  /\ IdleRun
  /\ IdlePlan
  /\ IdleProgress
  /\ fl_variant \in RetryScripts
  /\ fl_attempt \in 1..MaxAttempt
  /\ backoff_seconds \in BackoffsOf(fl_variant)
  /\ fl_resp \in Responses \cup {NoResponse}
  /\ fl_slept = <<>>
  /\ fl_error = <<>>

Handling == fl_variant # "none" /\ fl_slept = <<>> /\ fl_error = <<>>

\* the response has a retryable status: time.sleep(...) and continue
SleepBeforeRetry ==
  /\ Handling
  /\ fl_resp # NoResponse
  /\ StatusDisposition(fl_variant, fl_resp.status) = "retry"
  /\ fl_slept' = <<sleep_s(fl_variant, fl_attempt, backoff_seconds)>>
  /\ UNCHANGED <<fl_variant, fl_attempt, backoff_seconds, fl_resp, fl_error>>
  /\ UNCHANGED <<rrVars, pgVars, runVars, planVars, prVars>>

\* the except clause: a network error is followed by the same time.sleep
SleepAfterException ==
  /\ Handling
  /\ fl_resp = NoResponse
  /\ fl_slept' = <<sleep_s(fl_variant, fl_attempt, backoff_seconds)>>
  /\ UNCHANGED <<fl_variant, fl_attempt, backoff_seconds, fl_resp, fl_error>>
  /\ UNCHANGED <<rrVars, pgVars, runVars, planVars, prVars>>

\* the raise in the loop body for a status that is neither 2xx nor retryable
RaisePermanent ==
  /\ Handling
  /\ fl_resp # NoResponse
  /\ StatusDisposition(fl_variant, fl_resp.status) = "raise"
  /\ fl_error' = <<error_body(fl_variant, "permanent", fl_resp.body)>>
  /\ UNCHANGED <<fl_variant, fl_attempt, backoff_seconds, fl_resp, fl_slept>>
  /\ UNCHANGED <<rrVars, pgVars, runVars, planVars, prVars>>

\* the failed attempt was the last one: "if last_resp is not None: raise"
RaiseExhausted ==
  /\ fl_slept # <<>>
  /\ fl_error = <<>>
  /\ fl_resp # NoResponse
  /\ fl_error' = <<error_body(fl_variant, "exhausted", fl_resp.body)>>
  /\ UNCHANGED <<fl_variant, fl_attempt, backoff_seconds, fl_resp, fl_slept>>
  /\ UNCHANGED <<rrVars, pgVars, runVars, planVars, prVars>>

\* a 2xx response whose body does not decode: parse_json / resp.json()
RaiseNonJson ==
  /\ Handling
  /\ fl_resp # NoResponse
  /\ IsSuccess(fl_resp.status)
  /\ fl_error' = <<error_body(fl_variant, "non_json", fl_resp.body)>>
  /\ UNCHANGED <<fl_variant, fl_attempt, backoff_seconds, fl_resp, fl_slept>>
  /\ UNCHANGED <<rrVars, pgVars, runVars, planVars, prVars>>

\* update_user_permissions: the response was returned by request_with_retry
\* and its caller (get_all_users, get_user_detail, put_user_update) finds
\* "not resp.ok"
RaiseNotOk ==
  /\ Handling
  /\ fl_resp # NoResponse
  /\ fl_variant = "update_user_permissions"
  /\ StatusDisposition(fl_variant, fl_resp.status) = "return"
  /\ fl_resp.status >= 400
  /\ fl_error' = <<error_body(fl_variant, "not_ok", fl_resp.body)>>
  /\ UNCHANGED <<fl_variant, fl_attempt, backoff_seconds, fl_resp, fl_slept>>
  /\ UNCHANGED <<rrVars, pgVars, runVars, planVars, prVars>>

NextFailure ==
  \/ SleepBeforeRetry
  \/ SleepAfterException
  \/ RaisePermanent
  \/ RaiseExhausted
  \/ RaiseNonJson
  \/ RaiseNotOk

SpecFailure == InitFailure /\ [][NextFailure]_vars

-----------------------------------------------------------------------------
(* Properties of a failed attempt (checked under SpecFailure) *)

\* the largest limit any script passes to its preview function
LargestPreview == 1200

\* C31: every error raised for a failed HTTP call (non-retryable status,
\* retry exhaustion, non-JSON body) holds at most a fixed number of
\* characters of the response body, whatever the length of the body.
C31_ErrorBodyBounded ==
  fl_error # <<>> => fl_error[1].chars <= LargestPreview

\* the delay after the first failed attempt of this call
FirstDelay == sleep_s(fl_variant, 1, backoff_seconds)

\* C32 as stated: the delay after the k-th failed attempt is base * 2^(k-1),
\* base being the first delay, in every request_with_retry.
C32_DelayDoublesEverywhere ==
  fl_slept # <<>> => fl_slept[1] = FirstDelay * (2 ^ (fl_attempt - 1))

\* C32: the delay after the k-th failed attempt is backoff_seconds * 2^(k-1)
\* in the five request_with_retry that take backoff_seconds; in
\* update_user_permissions it is 2^k seconds, and 20 seconds once 2^k
\* exceeds 20.
C32_DelayDoublesOrCapped ==
  fl_slept # <<>> =>
    IF fl_variant = "update_user_permissions"
    THEN fl_slept[1] = (IF 2 ^ fl_attempt > 20 THEN 20 ELSE 2 ^ fl_attempt)
    ELSE fl_slept[1] = backoff_seconds * (2 ^ (fl_attempt - 1))

\* the fifth failed attempt of update_user_permissions has been followed by
\* its sleep: 2^5 exceeds the cap
C32_Witness ==
  /\ fl_variant = "update_user_permissions"
  /\ fl_attempt = 5
  /\ fl_slept = <<20>>

\* C33: when a retryable response carries a Retry-After hint, the wait
\* before the next attempt is at least the hinted number of seconds.
C33_WaitHonorsRetryAfter ==
  (fl_slept # <<>> /\ fl_resp.retry_after # <<>>) =>
    fl_slept[1] >= fl_resp.retry_after[1]

-----------------------------------------------------------------------------
(* Properties of a run: response bodies, the progress reporter, the write  *)
(* gates (checked under Spec)                                              *)

\* C34: a 2xx response whose body is not JSON or not of the expected shape
\* fails that call for good: the request is not sent again and the entity
\* it belongs to is recorded as failed, in the sequential loops (detail
\* fetch, write) and in the tasks of the thread pool (no task raises).
C34_BadBodyFailsOnce ==
  /\ (script \in SequentialScripts /\ last.status # "none"
        /\ Sent(last.requests, "GET") /\ last.detail.kind = "nondict")
       => (last.status = "failed" /\ last.requests = <<"GET">>)
  /\ (script \in SequentialScripts /\ last.status # "none"
        /\ last.write \in {"nonjson", "nondict"})
       => (last.status = "failed" /\ NumWrites(last.requests) = 1)
  /\ \A i \in DOMAIN fut : fut[i].st # "raised"

-----------------------------------------------------------------------------
(* The progress reporter around a per-entity loop (SpecProgress): the       *)
(* fallback generators used when tqdm is not installed, and v2's            *)
(* progress_bar, which is called from inside the loop                       *)

\* longest iterable handed to a reporter
MaxProgressItems == 3

\* progress_iter (functions/progress_bar.py, update_user_email_domains,
\* bulk_create_users_from_csv), simple_progress of update_user_permissions,
\* simple_progress of backup_user_permissions, progress_bar of v2
ProgressReporters ==
  {"progress_iter", "simple_progress", "backup_simple_progress", "progress_bar"}

ProgressItems == {"a", "b", "c"}

\* the total argument the callers pass: len(users); progress_iter also
\* accepts None
TotalsOf(v, items) ==
  IF v = "progress_iter" THEN {<<>>, <<Len(items)>>} ELSE {<<Len(items)>>}

\* "total = total if total is not None else len(iterable)"
effective_total(items, total) == IF total = <<>> THEN Len(items) ELSE total[1]

\* "int(bar_width * progress)" with "progress = i / total if total else 1"
\* and bar_width = 30
filled(i, total) == IF total # 0 THEN (30 * i) \div total ELSE 30

\* "int((done / total) * 100) if total else 100"
pct(done, total) == IF total # 0 THEN (done * 100) \div total ELSE 100

\* the line a reporter prints for item number i; simple_progress prints
\* only when the percentage has changed
progress_line(v, i, total, printed) ==
  IF v = "simple_progress"
  THEN LET last_pct == IF printed = <<>> THEN -1 ELSE printed[Len(printed)].mark
       IN  IF pct(i, total) # last_pct
           THEN <<[i |-> i, total |-> total, mark |-> pct(i, total)]>>
           ELSE <<>>
  ELSE IF v = "progress_bar"
       THEN LET t == IF total <= 0 THEN 1 ELSE total
            IN  <<[i |-> i, total |-> t, mark |-> filled(i, t)]>>
       ELSE <<[i |-> i, total |-> total, mark |-> filled(i, total)]>>

next_itemMut(items, done) == items[Len(items) - done]

\* "for i, item in enumerate(iterable, start=1): ... yield item": the item
\* the loop body receives after done items have been taken
next_item(items, done) == items[done + 1]

InitProgress ==
  /\ IdleRetry
  /\ IdlePage
  /\ IdleRun
  /\ IdlePlan
  /\ IdleFailure
  /\ pr_variant \in ProgressReporters
  /\ pr_items \in SeqsUpTo(ProgressItems, MaxProgressItems)
  /\ pr_total \in TotalsOf(pr_variant, pr_items)
  /\ pr_done = 0
  /\ pr_yielded = <<>>
  /\ pr_printed = <<>>
  /\ pr_finished = FALSE

\* one turn of the reporter's loop: print the progress line, yield the item
ProgressNext ==
  /\ pr_variant # "none"
  /\ ~pr_finished
  /\ pr_done < Len(pr_items)
  /\ pr_done' = pr_done + 1
  /\ pr_printed' = pr_printed \o
       progress_line(pr_variant, pr_done + 1,
                     effective_total(pr_items, pr_total), pr_printed)
  /\ pr_yielded' = Append(pr_yielded, next_item(pr_items, pr_done))
  /\ UNCHANGED <<pr_variant, pr_items, pr_total, pr_finished>>
  /\ UNCHANGED <<rrVars, pgVars, runVars, planVars, flVars>>

\* the iterable is exhausted: the closing print() and StopIteration
ProgressEnd ==
  /\ pr_variant # "none"
  /\ ~pr_finished
  /\ pr_done = Len(pr_items)
  /\ pr_finished' = TRUE
  /\ UNCHANGED <<pr_variant, pr_items, pr_total, pr_done, pr_yielded, pr_printed>>
  /\ UNCHANGED <<rrVars, pgVars, runVars, planVars, flVars>>

NextProgress == ProgressNext \/ ProgressEnd

SpecProgress == InitProgress /\ [][NextProgress]_vars

\* C35: the progress reporter is purely observational: the items handed to
\* the loop body are exactly the items of the underlying iterable, each
\* once and in the same order, so the loop body works through the same
\* sequence with and without the reporter.
C35_ReporterYieldsIterable ==
  /\ pr_yielded = SubSeq(pr_items, 1, pr_done)
  /\ pr_finished => pr_yielded = pr_items

\* a reporter has handed over three items, not all alike, and is exhausted
C35_Witness ==
  /\ pr_finished
  /\ Len(pr_items) = 3
  /\ pr_items[1] # pr_items[3]
  /\ pr_yielded = pr_items
  /\ Len(pr_printed) > 0

-----------------------------------------------------------------------------
(* The write gates of the runs (checked under Spec) *)

\* C36: update_user_email_domains hands a PUT to the transport only in a
\* run started with --apply; a run started without --apply (with --dry-run
\* or with neither flag) goes through its loop as a dry run and writes
\* nothing.
C36_PutOnlyWithApply ==
  script = "update_user_email_domains" =>
    /\ (writes > 0 \/ Sent(last.requests, "PUT")) => args.apply
    /\ (~args.apply /\ pc \in {"loop", "done"}) => args.dry_run

\* a run started without --apply is in its loop and has just previewed the
\* rewrite of a user's address without sending a PUT
C36_Witness ==
  /\ script = "update_user_email_domains"
  /\ ~args.apply
  /\ pc = "loop"
  /\ idx = 1
  /\ last.status = "updated"
  /\ ~Sent(last.requests, "PUT")
  /\ counts["updated"] = 1
  /\ writes = 0

\* the lines the operator may type that read y or yes, letter case and
\* surrounding blanks aside
Confirmed == args.answer \in {<<"Y">>, <<" ", "yes", " ">>}

\* C37: update_users_new_projects_v2 and duplicate_project hand no PUT or
\* POST to the transport unless the operator answered y or yes at the
\* confirmation prompt; after any other answer the run ends with exit code
\* 0, having sent requests (GETs) but no write, and never enters its write
\* phase.
C37_WriteOnlyAfterYes ==
  script \in PromptScripts =>
    /\ (writes > 0 \/ Sent(last.requests, "PUT") \/ Sent(last.requests, "POST"))
         => Confirmed
    /\ ~Confirmed =>
         /\ pc \notin {"loop", "create"}
         /\ pc = "done" => (exit_code = <<0>> /\ net /\ writes = 0 /\ idx = 0)

\* the operator typed something other than y / yes (here: nothing, or "ok")
\* and the run has ended with code 0 after its GETs
C37_Witness ==
  /\ script \in PromptScripts
  /\ args.answer \in {<<>>, <<"ok">>}
  /\ pc = "done"
  /\ exit_code = <<0>>
  /\ net
  /\ writes = 0

-----------------------------------------------------------------------------
(* The page-size fallback of update_user_permissions (checked under SpecPage) *)

\* error k of the listing is a retry-exhausted status 500 on page 1 with a
\* page size above 50, and no fallback has been tried before it
ArmsFallback(k) ==
  /\ k = 1
  /\ pg_errors[k].t = "exhausted500"
  /\ pg_errors[k].pageNumber = 1
  /\ pg_errors[k].pageSize > 50

\* C38: in update_user_permissions.get_all_users a retry-exhausted 500 on
\* page 1 with page_size > 50 is followed by exactly one more request for
\* page 1, of size 50, and every later request has size 50; any other
\* error of a list request (the same failure on a later page or with
\* page_size <= 50, a failure of the fallback request) ends the listing
\* with an error, the failed request being the last one sent.
C38_FallbackOnceThenAbort ==
  pg_variant = "update_user_permissions" =>
    \A k \in 1..Len(pg_errors) :
      IF ArmsFallback(k)
      THEN /\ Len(pg_requests) >= 2
           /\ pg_requests[1] = Request(1, pg_errors[k].pageSize)
           /\ pg_requests[2] = Request(1, 50)
           /\ \A i \in 3..Len(pg_requests) :
                pg_requests[i].pageNumber > 1 /\ pg_requests[i].pageSize = 50
      ELSE /\ pg_result.kind = "raised"
           /\ k = Len(pg_errors)
           /\ pg_requests[Len(pg_requests)] =
                Request(pg_errors[k].pageNumber, pg_errors[k].pageSize)

\* the fallback request succeeded and the listing went on to page 2 with
\* page size 50
C38_Witness ==
  /\ pg_variant = "update_user_permissions"
  /\ Len(pg_errors) = 1
  /\ pg_errors[1] = [pageNumber |-> 1, pageSize |-> 51, t |-> "exhausted500"]
  /\ Len(pg_requests) = 3
  /\ pg_requests[3] = Request(2, 50)
  /\ pg_result.kind = "returned"

-----------------------------------------------------------------------------
(* --max-retries of bulk_create_users_from_csv (checked under Spec) *)

\* the row finished last has its three required columns
ValidRow == last.item.email /\ last.item.firstName /\ last.item.lastName

\* C39: with --max-retries <= 0 request_with_retry sends no request and
\* raises its exhaustion error, so an --apply run of
\* bulk_create_users_from_csv records every valid row as failed and never
\* sends a POST (nor any other request).
C39_NoAttemptWithoutRetries ==
  (script = "bulk_create_users_from_csv" /\ args.max_retries <= 0) =>
    /\ writes = 0
    /\ ~net
    /\ counts["created"] = 0
    /\ (args.apply /\ last.status # "none" /\ ValidRow) =>
         (last.status = "failed" /\ last.requests = <<>>)

\* an --apply run with --max-retries 0 has finished two rows, the last one
\* valid, and ends with exit code 1
C39_Witness ==
  /\ script = "bulk_create_users_from_csv"
  /\ args.apply
  /\ args.max_retries = 0
  /\ pc = "done"
  /\ idx = 2
  /\ ValidRow
  /\ last.status = "failed"
  /\ counts["failed"] = 2
  /\ exit_code = <<1>>

====
